---- MODULE Spec2Model ----
(***************************************************************************)
(* A model of the read path of sqlite_clone: the value and record          *)
(* comparison of datatypes.rs / btree.rs, the varint decoder, and the      *)
(* B-tree navigator (get_row, get_index, list_records) of btree.rs over    *)
(* parsed pages served by the pager.                                       *)
(*                                                                         *)
(* Three groups of variables, one per specification:                       *)
(*   SpecValue / SpecRecord : lhs, rhs, verdict                            *)
(*   SpecVarInt             : bytes, parsed                                *)
(*   Spec                   : db, call, page_num, stack, output, visited,  *)
(*                            result                                       *)
(***************************************************************************)
EXTENDS Integers, Sequences, FiniteSets, TLC

VARIABLES
    lhs,        \* left operand of a comparison (a Value or a Record)
    rhs,        \* right operand
    verdict,    \* the results of ==, partial_cmp in both directions
    bytes,      \* the byte slice handed to VarInt::parse
    parsed,     \* the pair VarInt::parse returned
    db,         \* the database file as the pager serves it: pages, num_pages, root
    call,       \* the navigator call in progress: op, arg, phase
    page_num,   \* the page_num argument of the pending *_rcrs call
    stack,      \* the frames of list_records_rcrs still iterating
    output,     \* the output vector of list_records
    visited,    \* the pages fetched by the call so far, in order
    result,     \* the Option<Record> the lookup returned
    args,       \* the arguments of the function under call
    ret,        \* what that call returned (Ok, Err) or that it panicked
    pager,      \* the Pager: num_pages, page_size, the file's pages, the cache
    history,    \* of the pager: the pages in the order of their last access,
                \* the file reads of the last call, the pages inserted; of
                \* the prototype table: the rows inserted, in order
    freelist,   \* main's variable freelist: the FreelistPage the loop tests
    freelist_pages, \* main's vector of the free page numbers collected
    table       \* the prototype's Table: its pager's pages and its cursor

cmpVars == <<lhs, rhs, verdict>>
varintVars == <<bytes, parsed>>
btreeVars == <<db, call, page_num, stack, output, visited, result>>
fnVars == <<args, ret, pager, history>>
progVars == <<freelist, freelist_pages, table>>
vars == <<lhs, rhs, verdict, bytes, parsed, db, call, page_num, stack, output,
          visited, result, args, ret, pager, history, freelist, freelist_pages,
          table>>

NoValue == [t |-> "none"]

(***************************************************************************)
(* Bounds of the model.                                                    *)
(***************************************************************************)
MaxInt == 2          \* integer payloads of the compared values are -1..MaxInt
MaxCols == 2         \* columns of a compared record
MaxStrLen == 2       \* bytes of a compared text or blob
MaxDepth == 3        \* levels of a generated B-tree
MaxInteriorCells == 2 \* cells of an interior page (it has one more child)
MaxLeafCells == 2    \* cells of a leaf page
MaxDup == 2          \* consecutive index entries sharing their first column
MaxBytes == 9        \* length of the slice handed to VarInt::parse

(***************************************************************************)
(* datatypes.rs: enum Value.  A value is a record with a tag t; integers   *)
(* carry v, floats carry v and the flag nan, text and blobs carry their    *)
(* bytes as a sequence.                                                    *)
(***************************************************************************)
IntTypes == {"Int8", "Int16", "Int24", "Int32", "Int48", "Int64"}

Null == [t |-> "Null"]
Integer0 == [t |-> "Integer0"]
Integer1 == [t |-> "Integer1"]
IntV(ty, n) == [t |-> ty, v |-> n]
FloatV(n) == [t |-> "Float", v |-> n, nan |-> FALSE]
FloatNaN == [t |-> "Float", v |-> 0, nan |-> TRUE]
StringV(s) == [t |-> "String", v |-> s]
BlobV(s) == [t |-> "Blob", v |-> s]
InternalV(s) == [t |-> "Internal", v |-> s]

\* Ordering of two integers, as the derived partial_cmp of the primitive types.
IntCmp(a, b) == IF a < b THEN "Less" ELSE IF a > b THEN "Greater" ELSE "Equal"

\* f64::partial_cmp: None when either side is NaN.
FloatCmp(a, anan, b, bnan) == IF anan \/ bnan THEN "None" ELSE IntCmp(a, b)

\* Vec<u8> / String partial_cmp: lexicographic, a proper prefix is Less.
RECURSIVE SeqCmp(_, _)
SeqCmp(a, b) ==
    IF a = <<>> /\ b = <<>> THEN "Equal"
    ELSE IF a = <<>> THEN "Less"
    ELSE IF b = <<>> THEN "Greater"
    ELSE IF Head(a) # Head(b) THEN IntCmp(Head(a), Head(b))
    ELSE SeqCmp(Tail(a), Tail(b))

\* Value::get_int_val of the integer-like variants.
get_int_val(x) ==
    IF x.t \in IntTypes THEN x.v
    ELSE IF x.t = "Integer0" THEN 0
    ELSE 1

\* impl PartialEq for Value.  Every `as` cast between the integer variants
\* widens (i8 -> i16 -> i32 -> i64), so it keeps the number.
Value_eq(self, other) ==
    CASE self.t = "Null" -> other.t = "Null"
      [] self.t \in IntTypes ->
            CASE other.t \in IntTypes -> self.v = other.v
              [] other.t = "Float" -> ~other.nan /\ self.v = other.v
              [] other.t = "Integer0" -> self.v = 0
              [] other.t = "Integer1" -> self.v = 1
              [] OTHER -> FALSE
      [] self.t = "Float" ->
            CASE other.t \in IntTypes -> ~self.nan /\ self.v = other.v
              [] other.t = "Float" -> ~self.nan /\ ~other.nan /\ self.v = other.v
              [] other.t = "Integer0" -> ~self.nan /\ self.v = 0
              [] other.t = "Integer1" -> ~self.nan /\ self.v = 1
              [] OTHER -> FALSE
      [] self.t = "Integer0" ->
            CASE other.t \in IntTypes -> other.v = 0
              [] other.t = "Float" -> ~other.nan /\ other.v = 0
              [] other.t = "Integer0" -> TRUE
              [] other.t = "Integer1" -> FALSE
              [] OTHER -> FALSE
      [] self.t = "Integer1" ->
            CASE other.t \in IntTypes -> other.v = 1
              [] other.t = "Float" -> ~other.nan /\ other.v = 1
              [] other.t = "Integer0" -> FALSE
              [] other.t = "Integer1" -> TRUE
              [] OTHER -> FALSE
      [] self.t = "Internal" -> other.t = "Internal" /\ self.v = other.v
      [] self.t = "Blob" -> other.t = "Blob" /\ self.v = other.v
      [] self.t = "String" -> other.t = "String" /\ self.v = other.v

\* The arm with the ordering of the String and Blob selves, which sort numbers
\* before them.
NumericVsRest_asText(other) == "Greater"

\* The `_ => Some(Ordering::Less)` arm that closes every numeric self:
\* other is a String or a Blob here.
NumericVsRest(other) == "Less"

\* The arms of partial_cmp for a numeric self holding the number n.
NumericCmp(n, nnan, other) ==
    CASE other.t = "Null" -> "Greater"
      [] other.t \in IntTypes -> FloatCmp(n, nnan, other.v, FALSE)
      [] other.t = "Float" -> FloatCmp(n, nnan, other.v, other.nan)
      [] other.t = "Integer0" -> FloatCmp(n, nnan, 0, FALSE)
      [] other.t = "Integer1" -> FloatCmp(n, nnan, 1, FALSE)
      [] other.t = "Internal" -> "None"
      [] OTHER -> NumericVsRest(other)

\* impl PartialOrd for Value.
Value_partial_cmp(self, other) ==
    CASE self.t = "Null" ->
            CASE other.t = "Null" -> "Equal"
              [] other.t = "Internal" -> "None"
              [] OTHER -> "Less"
      [] self.t \in IntTypes -> NumericCmp(self.v, FALSE, other)
      [] self.t = "Float" -> NumericCmp(self.v, self.nan, other)
      [] self.t = "Integer0" ->
            IF other.t = "Integer0" THEN "Equal"
            ELSE IF other.t = "Integer1" THEN "Less"
            ELSE NumericCmp(0, FALSE, other)
      [] self.t = "Integer1" ->
            IF other.t = "Integer0" THEN "Greater"
            ELSE IF other.t = "Integer1" THEN "Equal"
            ELSE NumericCmp(1, FALSE, other)
      [] self.t = "String" ->
            CASE other.t = "String" -> SeqCmp(self.v, other.v)
              [] other.t = "Blob" -> "Less"
              [] other.t = "Internal" -> "None"
              [] OTHER -> "Greater"
      [] self.t = "Blob" ->
            CASE other.t = "Blob" -> SeqCmp(self.v, other.v)
              [] other.t = "Internal" -> "None"
              [] OTHER -> "Greater"
      [] self.t = "Internal" -> "None"

(***************************************************************************)
(* btree.rs: struct Record.  Only `values` takes part in the comparisons,  *)
(* so a record is the sequence of its values.                              *)
(***************************************************************************)
\* An equality that also wants the two records to have the same length.
Record_eq_sameLen(self, other) ==
    Len(self) = Len(other) /\ \A i \in 1..Len(self) : Value_eq(self[i], other[i])

\* impl PartialEq for Record: every column of self must have an equal column
\* in other; other may be longer.
RECURSIVE Record_eq_from(_, _, _)
Record_eq_from(self, other, i) ==
    IF i > Len(self) THEN TRUE
    ELSE IF i > Len(other) THEN FALSE
    ELSE IF ~Value_eq(self[i], other[i]) THEN FALSE
    ELSE Record_eq_from(self, other, i + 1)

\* A `==` of records.
Record_eq(self, other) == Record_eq_from(self, other, 1)

\* What the loop of partial_cmp returns when it runs off the end of self.
\* The code's final statement is `return None`.
Record_cmp_exhausted == "None"

\* impl PartialOrd for Record.
RECURSIVE Record_cmp_from(_, _, _)
Record_cmp_from(self, other, i) ==
    IF i > Len(self) THEN Record_cmp_exhausted
    ELSE IF i > Len(other) THEN "Greater"
    ELSE IF ~Value_eq(self[i], other[i]) THEN Value_partial_cmp(self[i], other[i])
    ELSE Record_cmp_from(self, other, i + 1)

Record_partial_cmp(self, other) == Record_cmp_from(self, other, 1)

\* `a <= b` as Rust derives it: partial_cmp is Some(Less) or Some(Equal).
Record_le(a, b) == Record_partial_cmp(a, b) \in {"Less", "Equal"}

(***************************************************************************)
(* datatypes.rs: VarInt.  The i64 accumulator is a vector of 64 bits,      *)
(* indexed by bit position (0 is the least significant bit), so that the   *)
(* shifts lose the bits an i64 loses.                                      *)
(***************************************************************************)
BitPos == 0..63

Pow2(n) == IF n = 0 THEN 1 ELSE IF n = 1 THEN 2 ELSE IF n = 2 THEN 4
           ELSE IF n = 3 THEN 8 ELSE IF n = 4 THEN 16 ELSE IF n = 5 THEN 32
           ELSE IF n = 6 THEN 64 ELSE 128

\* Bit p of the byte b.
ByteBit(b, p) == (b \div Pow2(p)) % 2

\* `x as i64` of a u8: zero extension.
AsI64(b) == [p \in BitPos |-> IF p < 8 THEN ByteBit(b, p) ELSE 0]

ZeroI64 == [p \in BitPos |-> 0]

\* `x << k` on an i64: the top k bits fall off.
Shl(x, k) == [p \in BitPos |-> IF p < k THEN 0 ELSE x[p - k]]

\* `x | y`.
BitOr(x, y) == [p \in BitPos |-> IF x[p] = 1 \/ y[p] = 1 THEN 1 ELSE 0]

\* The ninth byte shifted in like the first eight.
NinthByteShift_seven == 8 - 1

\* The shift applied to the accumulator before the ninth byte is or-ed in.
NinthByteShift == 8

\* The body of the loop of VarInt::parse from iteration i (0-based) on, with
\* the accumulator varint and the counter bytes_read.
RECURSIVE parse_loop(_, _, _, _)
parse_loop(bs, i, varint, bytes_read) ==
    IF i >= Len(bs) \/ i >= 9 THEN [value |-> varint, len |-> bytes_read]
    ELSE LET byte == bs[i + 1] IN
         IF i = 8
         THEN [value |-> BitOr(Shl(varint, NinthByteShift), AsI64(byte)),
               len |-> bytes_read + 1]
         ELSE LET next == BitOr(Shl(varint, 7), AsI64(byte % 128)) IN
              IF byte < 128
              THEN [value |-> next, len |-> bytes_read + 1]
              ELSE parse_loop(bs, i + 1, next, bytes_read + 1)

\* VarInt::parse.
VarInt_parse(bs) == parse_loop(bs, 0, ZeroI64, 0)

(***************************************************************************)
(* The inputs of the comparison and varint specifications.                 *)
(***************************************************************************)
IntVals == (0 - 1)..MaxInt

ByteStrings == UNION {[1..n -> {1, 2}] : n \in 0..MaxStrLen}

Values ==
    {Null, Integer0, Integer1, FloatNaN, InternalV(<<3>>)}
    \cup {IntV(ty, n) : ty \in IntTypes, n \in IntVals}
    \cup {FloatV(n) : n \in IntVals}
    \cup {StringV(s) : s \in ByteStrings}
    \cup {BlobV(s) : s \in ByteStrings}

\* The column values of the compared records.
RecVals == {Null, IntV("Int8", 1), IntV("Int16", 1), IntV("Int64", 2),
            FloatNaN, StringV(<<1>>)}

Records == UNION {[1..n -> RecVals] : n \in 0..MaxCols}

\* A continuation byte with one low bit, one with all seven, and a
\* terminating byte (0x81, 0xff, 0x25).
ByteVals == {129, 255, 37}

ByteSlices == UNION {[1..n -> ByteVals] : n \in 0..MaxBytes}

IdleCmp == lhs = NoValue /\ rhs = NoValue /\ verdict = NoValue
IdleVarInt == bytes = <<>> /\ parsed = NoValue
IdleFn == args = NoValue /\ ret = NoValue /\ pager = NoValue /\ history = NoValue
IdleProg == freelist = NoValue /\ freelist_pages = <<>> /\ table = NoValue
IdleBtree ==
    /\ db = NoValue
    /\ call = NoValue
    /\ page_num = 0
    /\ stack = <<>>
    /\ output = <<>>
    /\ visited = <<>>
    /\ result = NoValue

(***************************************************************************)
(* SpecValue: two values are compared with ==, != and partial_cmp.         *)
(***************************************************************************)
InitValue ==
    /\ lhs \in Values
    /\ rhs \in Values
    /\ verdict = NoValue
    /\ IdleVarInt
    /\ IdleBtree
    /\ IdleFn
    /\ IdleProg

CompareValues ==
    /\ lhs \in Values
    /\ verdict = NoValue
    /\ verdict' = [t |-> "value",
                   eq |-> Value_eq(lhs, rhs),
                   eq_rev |-> Value_eq(rhs, lhs),
                   cmp |-> Value_partial_cmp(lhs, rhs),
                   cmp_rev |-> Value_partial_cmp(rhs, lhs)]
    /\ UNCHANGED <<lhs, rhs, varintVars, btreeVars, fnVars, progVars>>

NextValue == CompareValues

SpecValue == InitValue /\ [][NextValue]_vars

(***************************************************************************)
(* SpecRecord: two records are compared with == and partial_cmp.           *)
(***************************************************************************)
InitRecord ==
    /\ lhs \in Records
    /\ rhs \in Records
    /\ verdict = NoValue
    /\ IdleVarInt
    /\ IdleBtree
    /\ IdleFn
    /\ IdleProg

CompareRecords ==
    /\ lhs \in Records
    /\ verdict = NoValue
    /\ verdict' = [t |-> "record",
                   eq |-> Record_eq(lhs, rhs),
                   cmp |-> Record_partial_cmp(lhs, rhs),
                   le |-> Record_le(lhs, rhs)]
    /\ UNCHANGED <<lhs, rhs, varintVars, btreeVars, fnVars, progVars>>

NextRecord == CompareRecords

SpecRecord == InitRecord /\ [][NextRecord]_vars

(***************************************************************************)
(* SpecVarInt: a byte slice is decoded by VarInt::parse.                   *)
(***************************************************************************)
InitVarInt ==
    /\ bytes \in ByteSlices
    /\ parsed = NoValue
    /\ IdleCmp
    /\ IdleBtree
    /\ IdleFn
    /\ IdleProg

ParseVarInt ==
    /\ parsed = NoValue
    /\ parsed' = [t |-> "parsed"] @@ VarInt_parse(bytes)
    /\ UNCHANGED <<bytes, cmpVars, btreeVars, fnVars, progVars>>

NextVarInt == ParseVarInt

SpecVarInt == InitVarInt /\ [][NextVarInt]_vars

(***************************************************************************)
(* btree.rs / pager.rs: the pages of a database file as                    *)
(* BtreePage::deserialize hands them out.  A page is its page_type, the    *)
(* cells its iterator yields in cell-pointer order, and the header's       *)
(* right_pointer (0 on leaves, where it is None).                          *)
(*   TableLeaf cell     : (row_id, record)                                 *)
(*   TableInterior cell : (child_ptr, key)                                 *)
(*   IndexLeaf cell     : record                                           *)
(*   IndexInterior cell : (child_ptr, record)                              *)
(***************************************************************************)
Err == [page_type |-> "Err", cells |-> <<>>, right_pointer |-> 0]

None == [t |-> "None"]
Some(rec) == [t |-> "Some", rec |-> rec]

\* Pager::get_page through Btree::get_page: an error for a page past the end
\* of the file, the parsed page otherwise (page numbers start at 1).
Btree_get_page(n) == IF n > db.num_pages THEN Err ELSE db.pages[n]

(***************************************************************************)
(* The database files of the model: complete B-trees of depth d whose      *)
(* interior pages have k cells and whose leaves have n cells, laid out     *)
(* level by level from the root, page 1.                                   *)
(***************************************************************************)
RECURSIVE Pow(_, _)
Pow(b, e) == IF e = 0 THEN 1 ELSE b * Pow(b, e - 1)

\* The first page of level lv (the root is level 0) with fan-out f.
LevelStart(f, lv) == ((Pow(f, lv) - 1) \div (f - 1)) + 1

LevelOf(f, d, p) == CHOOSE lv \in 0..(d - 1) :
                        LevelStart(f, lv) <= p /\ p < LevelStart(f, lv + 1)

\* The row ids of a table tree in key order: 2, 4, 6, ... (odd ids are absent).
RowIdAt(j) == 2 * j

RowRecord(row_id) == <<StringV(<<1>>), IntV("Int16", row_id)>>

\* Page p of the table tree (d, k, n); an interior key is the largest row id
\* of its left subtree plus slack, and stays below the next subtree's ids.
TablePage(d, k, n, slack, p) ==
    LET f == k + 1
        lv == LevelOf(f, d, p)
        o == p - LevelStart(f, lv)
    IN  IF lv = d - 1
        THEN [page_type |-> "TableLeaf",
              cells |-> [i \in 1..n |->
                            [row_id |-> RowIdAt(o * n + i),
                             record |-> RowRecord(RowIdAt(o * n + i))]],
              right_pointer |-> 0]
        ELSE [page_type |-> "TableInterior",
              cells |-> [c \in 1..k |->
                            [child_ptr |-> LevelStart(f, lv + 1) + f * o + (c - 1),
                             key |-> RowIdAt(n * (f * o + c) * Pow(f, d - 2 - lv))
                                     + slack]],
              right_pointer |-> LevelStart(f, lv + 1) + f * o + k]

TableDb(d, k, n, slack) ==
    LET np == LevelStart(k + 1, d) - 1 IN
    [kind |-> "table",
     root_page |-> 1,
     num_pages |-> np,
     pages |-> [p \in 1..np |-> TablePage(d, k, n, slack, p)]]

\* The number of entries of an index subtree rooted at level lv.
RECURSIVE SubtreeSize(_, _, _, _)
SubtreeSize(d, k, n, lv) ==
    IF lv = d - 1 THEN n ELSE (k + 1) * SubtreeSize(d, k, n, lv + 1) + k

\* The first column of the index entries, by rank: NULL, then integers of
\* changing width, and text for the highest rank.
ColValue(rank, top) ==
    IF rank = 0 THEN Null
    ELSE IF rank = top THEN StringV(<<1, rank>>)
    ELSE IF rank = 1 THEN Integer1
    ELSE IF rank % 3 = 2 THEN IntV("Int8", rank)
    ELSE IF rank % 3 = 0 THEN IntV("Int16", rank)
    ELSE IntV("Int32", rank)

\* The index entry at position pos (from 0) of the key order: the indexed
\* column, shared by dup consecutive entries, then the row id.
IndexEntry(pos, dup, total) ==
    <<ColValue(pos \div dup, (total - 1) \div dup), IntV("Int64", pos + 1)>>

\* Page p of the index tree (d, k, n): the entry of an interior cell follows
\* the entries of its left subtree in the key order.
IndexPage(d, k, n, dup, p) ==
    LET f == k + 1
        lv == LevelOf(f, d, p)
        o == p - LevelStart(f, lv)
        total == SubtreeSize(d, k, n, 0)
        size == SubtreeSize(d, k, n, lv)
    IN  IF lv = d - 1
        THEN [page_type |-> "IndexLeaf",
              cells |-> [i \in 1..n |->
                            [record |-> IndexEntry(o * (size + 1) + i - 1, dup, total)]],
              right_pointer |-> 0]
        ELSE LET below == SubtreeSize(d, k, n, lv + 1) IN
             [page_type |-> "IndexInterior",
              cells |-> [c \in 1..k |->
                            [child_ptr |-> LevelStart(f, lv + 1) + f * o + (c - 1),
                             record |-> IndexEntry((f * o + c - 1) * (below + 1) + below,
                                                   dup, total)]],
              right_pointer |-> LevelStart(f, lv + 1) + f * o + k]

IndexDb(d, k, n, dup) ==
    LET np == LevelStart(k + 1, d) - 1 IN
    [kind |-> "index",
     root_page |-> 1,
     num_pages |-> np,
     pages |-> [p \in 1..np |-> IndexPage(d, k, n, dup, p)]]

\* The shapes (depth, cells of an interior page) of the trees of at most
\* MaxDbPages pages.
MaxDbPages == 13

Shapes ==
    {s \in (1..MaxDepth) \X (1..MaxInteriorCells) :
        LevelStart(s[2] + 1, s[1]) - 1 <= MaxDbPages}

Databases ==
    {TableDb(1, 1, 0, 0)}
    \cup {TableDb(s[1], s[2], n, slack) : s \in Shapes,
                                          n \in 1..MaxLeafCells, slack \in {0, 1}}
    \cup {IndexDb(s[1], s[2], n, dup) : s \in Shapes,
                                        n \in 1..MaxLeafCells, dup \in 1..MaxDup}

\* The (row_id, record) cells of all the table leaves of the file.
StoredRows ==
    UNION {{db.pages[p].cells[i] : i \in 1..Len(db.pages[p].cells)} :
             p \in {q \in 1..db.num_pages : db.pages[q].page_type = "TableLeaf"}}

\* The records of all the index cells of the file, leaf and interior.
StoredEntries ==
    UNION {{db.pages[p].cells[i].record : i \in 1..Len(db.pages[p].cells)} :
             p \in {q \in 1..db.num_pages :
                      db.pages[q].page_type \in {"IndexLeaf", "IndexInterior"}}}

Max(S) == CHOOSE x \in S : \A y \in S : x >= y

\* The row ids looked up: every stored one, the absent ones between them,
\* below the smallest and above the largest.
RowIdArgs ==
    0..(Max({c.row_id : c \in StoredRows} \cup {0}) + 2)

\* The index keys looked up: every prefix of every stored entry, the same
\* first columns as 8-byte integers, and keys that are not stored.
IndexArgs ==
    {SubSeq(r, 1, j) : r \in StoredEntries, j \in 0..2}
    \cup {<<IntV("Int64", v)>> : v \in 0..(Cardinality(StoredEntries) + 1)}
    \cup {<<r[1], IntV("Int8", 0)>> : r \in StoredEntries}
    \cup {<<BlobV(<<>>)>>}

(***************************************************************************)
(* btree.rs: the navigator.  One action per call of Btree::get_row,        *)
(* get_index, list_records and per call of their recursive helpers.        *)
(***************************************************************************)
Idle == [op |-> "none", phase |-> "idle"]

\* The leaf loop of get_row_rcrs with `>=` for `==`.
RECURSIVE TableLeafScan_atLeast(_, _, _)
TableLeafScan_atLeast(cells, row_id, i) ==
    IF i > Len(cells) THEN None
    ELSE IF cells[i].row_id >= row_id THEN Some(cells[i].record)
    ELSE TableLeafScan_atLeast(cells, row_id, i + 1)

\* The leaf loop of get_row_rcrs: the record of the first cell from i on
\* whose row id is row_id.
RECURSIVE TableLeafScan(_, _, _)
TableLeafScan(cells, row_id, i) ==
    IF i > Len(cells) THEN None
    ELSE IF cells[i].row_id = row_id THEN Some(cells[i].record)
    ELSE TableLeafScan(cells, row_id, i + 1)

\* The test that ends the interior loop of get_row_rcrs, with `<` for `<=`.
TableKeyTest_strict(row_id, key) == row_id < key

\* The test that ends the interior loop of get_row_rcrs.
TableKeyTest(row_id, key) == row_id <= key

\* The interior loop of get_row_rcrs: the child_ptr of the first cell from
\* i on that passes the test, None (0) when the loop ends without a break.
RECURSIVE TableInteriorScan(_, _, _)
TableInteriorScan(cells, row_id, i) ==
    IF i > Len(cells) THEN 0
    ELSE IF TableKeyTest(row_id, cells[i].key) THEN cells[i].child_ptr
    ELSE TableInteriorScan(cells, row_id, i + 1)

\* The choice of the child with the last cell's child standing in for the
\* header's right_pointer.
TableChild_noRight(pg, row_id) ==
    LET child_page == TableInteriorScan(pg.cells, row_id, 1) IN
    IF child_page = 0 THEN pg.cells[Len(pg.cells)].child_ptr ELSE child_page

\* The page get_row_rcrs recurses into from the table-interior page pg.
TableChild(pg, row_id) ==
    LET child_page == TableInteriorScan(pg.cells, row_id, 1) IN
    IF child_page = 0 THEN pg.right_pointer ELSE child_page

\* The leaf loop of get_index_rcrs without its early return: the last equal
\* cell wins.
RECURSIVE IndexLeafScan_last(_, _, _)
IndexLeafScan_last(cells, index, i) ==
    IF i > Len(cells) THEN None
    ELSE LET rest == IndexLeafScan_last(cells, index, i + 1) IN
         IF rest.t = "Some" THEN rest
         ELSE IF Record_eq(index, cells[i].record) THEN Some(cells[i].record)
         ELSE None

\* The leaf loop of get_index_rcrs.
RECURSIVE IndexLeafScan(_, _, _)
IndexLeafScan(cells, index, i) ==
    IF i > Len(cells) THEN None
    ELSE IF Record_eq(index, cells[i].record) THEN Some(cells[i].record)
    ELSE IndexLeafScan(cells, index, i + 1)

\* The interior loop of get_index_rcrs without its equality arm.
RECURSIVE IndexInteriorScan_noEq(_, _, _)
IndexInteriorScan_noEq(cells, index, i) ==
    IF i > Len(cells) THEN [t |-> "descend", child |-> 0]
    ELSE IF Record_eq(index, cells[i].record) \/ Record_le(index, cells[i].record)
    THEN [t |-> "descend", child |-> cells[i].child_ptr]
    ELSE IndexInteriorScan_noEq(cells, index, i + 1)

\* The interior loop of get_index_rcrs: it returns the record of a cell
\* equal to index, or breaks with the child_ptr of a cell index is <= to,
\* or ends with child_page None (0).
RECURSIVE IndexInteriorScan(_, _, _)
IndexInteriorScan(cells, index, i) ==
    IF i > Len(cells) THEN [t |-> "descend", child |-> 0]
    ELSE IF Record_eq(index, cells[i].record)
    THEN [t |-> "return", rec |-> cells[i].record]
    ELSE IF Record_le(index, cells[i].record)
    THEN [t |-> "descend", child |-> cells[i].child_ptr]
    ELSE IndexInteriorScan(cells, index, i + 1)

\* The pages list_records_rcrs would recurse into if it also followed the
\* header's right_pointer.
InteriorChildren_withRight(pg) ==
    [i \in 1..(Len(pg.cells) + 1) |->
        IF i <= Len(pg.cells) THEN pg.cells[i].child_ptr ELSE pg.right_pointer]

\* The pages list_records_rcrs recurses into from a table-interior page: the
\* child_ptr of every cell `pg.iter()` yields.
InteriorChildren(pg) == [i \in 1..Len(pg.cells) |-> pg.cells[i].child_ptr]

\* Btree::get_row: get_row_rcrs(row_id, self.root_page).
get_row ==
    /\ db # NoValue
    /\ call.phase = "idle"
    /\ \E row_id \in RowIdArgs :
           call' = [op |-> "get_row", phase |-> "running", arg |-> row_id]
    /\ page_num' = db.root_page
    /\ visited' = <<>>
    /\ stack' = <<>>
    /\ output' = <<>>
    /\ result' = NoValue
    /\ UNCHANGED <<db, cmpVars, varintVars, fnVars, progVars>>

\* One call of get_row_rcrs(row_id, page_num).
get_row_rcrs ==
    /\ call.op = "get_row"
    /\ call.phase = "running"
    /\ LET pg == Btree_get_page(page_num) IN
       /\ visited' = Append(visited, page_num)
       /\ IF pg.page_type = "TableInterior"
          THEN /\ page_num' = TableChild(pg, call.arg)
               /\ UNCHANGED <<call, result>>
          ELSE /\ result' = IF pg.page_type = "TableLeaf"
                            THEN TableLeafScan(pg.cells, call.arg, 1)
                            ELSE None
               /\ call' = [call EXCEPT !.phase = "done"]
               /\ UNCHANGED page_num
    /\ UNCHANGED <<db, stack, output, cmpVars, varintVars, fnVars, progVars>>

\* Btree::get_index: get_index_rcrs(index, self.root_page).
get_index ==
    /\ db # NoValue
    /\ call.phase = "idle"
    /\ \E index \in IndexArgs :
           call' = [op |-> "get_index", phase |-> "running", arg |-> index]
    /\ page_num' = db.root_page
    /\ visited' = <<>>
    /\ stack' = <<>>
    /\ output' = <<>>
    /\ result' = NoValue
    /\ UNCHANGED <<db, cmpVars, varintVars, fnVars, progVars>>

\* One call of get_index_rcrs(index, page_num).
get_index_rcrs ==
    /\ call.op = "get_index"
    /\ call.phase = "running"
    /\ LET pg == Btree_get_page(page_num)
           scan == IndexInteriorScan(pg.cells, call.arg, 1)
       IN
       /\ visited' = Append(visited, page_num)
       /\ IF pg.page_type = "IndexInterior" /\ scan.t = "descend"
          THEN /\ page_num' = IF scan.child = 0 THEN pg.right_pointer
                              ELSE scan.child
               /\ UNCHANGED <<call, result>>
          ELSE /\ result' = IF pg.page_type = "IndexInterior" THEN Some(scan.rec)
                            ELSE IF pg.page_type = "IndexLeaf"
                            THEN IndexLeafScan(pg.cells, call.arg, 1)
                            ELSE None
               /\ call' = [call EXCEPT !.phase = "done"]
               /\ UNCHANGED page_num
    /\ UNCHANGED <<db, stack, output, cmpVars, varintVars, fnVars, progVars>>

\* Btree::list_records: list_records_rcrs(self.root_page).
list_records ==
    /\ db # NoValue
    /\ call.phase = "idle"
    /\ call' = [op |-> "list_records", phase |-> "running"]
    /\ page_num' = db.root_page
    /\ visited' = <<>>
    /\ stack' = <<>>
    /\ output' = <<>>
    /\ result' = NoValue
    /\ UNCHANGED <<db, cmpVars, varintVars, fnVars, progVars>>

\* The returns that follow a call of list_records_rcrs: the innermost frame
\* whose loop has a child left makes the next call; when no frame is left
\* list_records returns.  A frame is the children of its page and the
\* position of the loop.
RECURSIVE Unwind(_)
Unwind(st) ==
    IF st = <<>> THEN [stack |-> <<>>, next |-> 0]
    ELSE LET top == st[Len(st)] IN
         IF top.cursor <= Len(top.children)
         THEN [stack |-> [st EXCEPT ![Len(st)].cursor = top.cursor + 1],
               next |-> top.children[top.cursor]]
         ELSE Unwind(SubSeq(st, 1, Len(st) - 1))

\* One call of list_records_rcrs(page_num): a leaf pushes its cells, an
\* interior page starts the loop over its children.
list_records_rcrs ==
    /\ call.op = "list_records"
    /\ call.phase = "running"
    /\ LET pg == Btree_get_page(page_num)
           frames == IF pg.page_type = "TableInterior"
                     THEN Append(stack, [children |-> InteriorChildren(pg),
                                         cursor |-> 1])
                     ELSE stack
           after == Unwind(frames)
       IN
       /\ visited' = Append(visited, page_num)
       /\ output' = IF pg.page_type = "TableLeaf" THEN output \o pg.cells
                    ELSE output
       /\ stack' = after.stack
       /\ IF after.next = 0
          THEN /\ call' = [call EXCEPT !.phase = "done"]
               /\ UNCHANGED page_num
          ELSE /\ page_num' = after.next
               /\ UNCHANGED call
    /\ UNCHANGED <<db, result, cmpVars, varintVars, fnVars, progVars>>

\* The caller takes the value a finished call returned; the navigator keeps
\* nothing of the call but the root page.
return ==
    /\ call.phase = "done"
    /\ call' = Idle
    /\ page_num' = 0
    /\ visited' = <<>>
    /\ stack' = <<>>
    /\ output' = <<>>
    /\ result' = NoValue
    /\ UNCHANGED <<db, cmpVars, varintVars, fnVars, progVars>>

Init ==
    /\ db \in Databases
    /\ call = Idle
    /\ page_num = 0
    /\ stack = <<>>
    /\ output = <<>>
    /\ visited = <<>>
    /\ result = NoValue
    /\ IdleCmp
    /\ IdleVarInt
    /\ IdleFn
    /\ IdleProg

Next ==
    \/ get_row
    \/ get_row_rcrs
    \/ get_index
    \/ get_index_rcrs
    \/ list_records
    \/ list_records_rcrs
    \/ return

Spec == Init /\ [][Next]_vars

(***************************************************************************)
(* datatypes.rs: DataType, the serial type of a record column with the     *)
(* number of bytes of its value.  A call returns Ok(v) or Err(e); a call   *)
(* that panicked did not return.                                           *)
(***************************************************************************)
MaxSerialType == 64   \* serial types converted are -4..MaxSerialType

Ok(v) == [t |-> "Ok", v |-> v]
ErrOf(e) == [t |-> "Err", e |-> e]
Panic == [t |-> "panic"]

Sized(variant, size) == [t |-> variant, size |-> size]
Internal == [t |-> "Internal"]

SomeUsize(n) == [t |-> "Some", v |-> n]

BlobSize_ofString(x) == (x - 13) \div 2

\* The arm `x if x % 2 == 0 => Self::Blob((x - 12) / 2)`.
BlobSize(x) == (x - 12) \div 2

\* The arm `x => Self::String((x - 13) / 2)`.
StringSize(x) == (x - 13) \div 2

\* value.0.try_into()? fails for a negative i64 (usize is 64 bits wide).
DataType_from_varint(value) ==
    IF value < 0 THEN ErrOf("TryFromIntError")
    ELSE Ok(CASE value = 0 -> Sized("Null", 0)
              [] value = 1 -> Sized("Int8", 1)
              [] value = 2 -> Sized("Int16", 2)
              [] value = 3 -> Sized("Int24", 3)
              [] value = 4 -> Sized("Int32", 4)
              [] value = 5 -> Sized("Int48", 6)
              [] value = 6 -> Sized("Int64", 8)
              [] value = 7 -> Sized("Float", 8)
              [] value = 8 -> Sized("Integer0", 0)
              [] value = 9 -> Sized("Integer1", 0)
              [] value \in {10, 11} -> Internal
              [] value >= 12 /\ value % 2 = 0 -> Sized("Blob", BlobSize(value))
              [] OTHER -> Sized("String", StringSize(value)))

DataType_get_size(dt) == IF dt.t = "Internal" THEN None ELSE SomeUsize(dt.size)

SerialTypes == (0 - 4)..MaxSerialType

(***************************************************************************)
(* SpecSerialType: a serial type is converted by DataType::from_varint and *)
(* the size of the result is read with get_size.                           *)
(***************************************************************************)
InitSerialType ==
    /\ args \in {[fn |-> "from_varint", value |-> n] : n \in SerialTypes}
    /\ ret = NoValue
    /\ pager = NoValue
    /\ history = NoValue
    /\ IdleCmp
    /\ IdleVarInt
    /\ IdleBtree
    /\ IdleProg

ConvertSerialType ==
    /\ args.fn = "from_varint"
    /\ ret = NoValue
    /\ ret' = LET r == DataType_from_varint(args.value) IN
              IF r.t = "Ok" THEN r @@ [size |-> DataType_get_size(r.v)] ELSE r
    /\ UNCHANGED <<args, pager, history, cmpVars, varintVars, btreeVars, progVars>>

NextSerialType == ConvertSerialType

SpecSerialType == InitSerialType /\ [][NextSerialType]_vars

(***************************************************************************)
(* lib.rs: FileHeader::parse.  The header is given by the fields parse     *)
(* reads: whether the magic string is there, the big-endian u16 page size, *)
(* the version bytes, the payload fractions, the change counter, the       *)
(* in-header page count, the text encoding and the version-valid-for       *)
(* number; total_size is the length of the slice.                          *)
(***************************************************************************)
MaxPageSizeBit == 15   \* page-size fields tried are 2^e - 2 .. 2^e + 2, e <= MaxPageSizeBit

U16 == 0..65535

\* The test `page_size <= 512 || page_size >= 32768 || page_size % 2 != 0`.
PageSizeOutOfRange(page_size) ==
    page_size <= 512 \/ page_size >= 32768 \/ page_size % 2 # 0

PageSizeInvalid(page_size) == page_size # 1 /\ PageSizeOutOfRange(page_size)

\* `num_pages = total_size as u32 / page_size as u32`: the divisor is the
\* page-size field as read.
PageSizeDivisor(page_size) == page_size

FileHeader_parse(h) ==
    IF ~h.magic THEN ErrOf("Not a valid sqlite file -- no magic number!")
    ELSE IF PageSizeInvalid(h.page_size) THEN ErrOf("Page size is invalid.")
    ELSE IF h.file_write \notin {1, 2} \/ h.file_read \notin {1, 2} THEN Panic
    ELSE IF h.max_payload # 64 \/ h.min_payload # 32 \/ h.leaf_payload # 32
         THEN ErrOf("Invalid payload fraction sizes")
    ELSE IF h.encoding \notin {1, 2, 3} THEN Panic
    ELSE Ok([page_size |-> h.page_size,
             num_pages |->
                 IF h.num_pages = 0 \/ h.change_counter # h.version_valid_for
                 THEN h.total_size \div PageSizeDivisor(h.page_size)
                 ELSE h.num_pages])

PageSizeFields ==
    {Pow(2, e) + d : e \in 0..MaxPageSizeBit, d \in (0 - 2)..2} \cap U16

Headers ==
    [magic : BOOLEAN,
     page_size : PageSizeFields,
     file_write : {1, 3},
     file_read : {2},
     max_payload : {64},
     min_payload : {32},
     leaf_payload : {32, 0},
     change_counter : {7},
     num_pages : {0, 3},
     encoding : {1, 4},
     version_valid_for : {7, 8},
     total_size : {131072}]

(***************************************************************************)
(* SpecHeader: the first bytes of a file are parsed as its header.         *)
(***************************************************************************)
InitHeader ==
    /\ args \in {[fn |-> "FileHeader::parse", i |-> h] : h \in Headers}
    /\ ret = NoValue
    /\ pager = NoValue
    /\ history = NoValue
    /\ IdleCmp
    /\ IdleVarInt
    /\ IdleBtree
    /\ IdleProg

ParseHeader ==
    /\ args.fn = "FileHeader::parse"
    /\ ret = NoValue
    /\ ret' = FileHeader_parse(args.i)
    /\ UNCHANGED <<args, pager, history, cmpVars, varintVars, btreeVars, progVars>>

NextHeader == ParseHeader

SpecHeader == InitHeader /\ [][NextHeader]_vars

(***************************************************************************)
(* btree.rs: calc_payload_on_page and the cell iterators that use it to    *)
(* slice the on-page part of a cell's payload.                             *)
(***************************************************************************)
MaxPayload == 1600   \* payload sizes of a cell are 0..MaxPayload

UsableSpace(page_size, reserved_space) == page_size - reserved_space

max_payload_indexOnly(usable_space, is_index_page) ==
    (((usable_space - 12) * 64) \div 255) - 23

\* max_payload = X
max_payload(usable_space, is_index_page) ==
    IF is_index_page
    THEN (((usable_space - 12) * 64) \div 255) - 23
    ELSE usable_space - 35

\* min_payload = M
min_payload(usable_space) == (((usable_space - 12) * 32) \div 255) - 23

KModulus_whole(usable_space) == usable_space

\* the divisor of `(payload_size - min_payload) % (usable_space - 4)`
KModulus(usable_space) == usable_space - 4

calc_payload_on_page(page_size, reserved_space, payload_size, is_index_page) ==
    LET usable_space == UsableSpace(page_size, reserved_space)
        maxp == max_payload(usable_space, is_index_page)
        minp == min_payload(usable_space)
        k == IF payload_size < minp
             THEN minp
             ELSE minp + ((payload_size - minp) % KModulus(usable_space))
    IN  IF payload_size <= maxp THEN payload_size
        ELSE IF k <= maxp THEN k
        ELSE minp

\* The bytes VarInt::parse reads for the varint that encodes n.
VarIntLen(n) == IF n < 128 THEN 1 ELSE IF n < 16384 THEN 2 ELSE 3

\* The bytes of a cell before its payload: the left child pointer of an
\* index-interior cell, the payload size, the row id of a table-leaf cell.
CellPrefix(kind, payload_size, row_id) ==
    CASE kind = "TableLeaf" -> VarIntLen(payload_size) + VarIntLen(row_id)
      [] kind = "IndexLeaf" -> VarIntLen(payload_size)
      [] kind = "IndexInterior" -> 4 + VarIntLen(payload_size)

\* next() of TableLeafIter, IndexLeafIter and IndexInteriorIter up to the
\* slice handed to Record::deserialize.
CellIter_next(c) ==
    LET payload_on_page == calc_payload_on_page(
            c.page_size, c.reserved_space, c.payload_size, c.kind # "TableLeaf")
        start == c.ptr + CellPrefix(c.kind, c.payload_size, c.row_id)
    IN  [t |-> "Some",
         payload_on_page |-> payload_on_page,
         start |-> start,
         end |-> start + payload_on_page]

Cells ==
    [kind : {"TableLeaf", "IndexLeaf", "IndexInterior"},
     page_size : {512, 1024},
     reserved_space : {0, 32},
     payload_size : 0..MaxPayload,
     row_id : {300},
     ptr : {8}]

(***************************************************************************)
(* SpecPayload: a cell iterator yields a cell of a page.                   *)
(***************************************************************************)
InitPayload ==
    /\ args \in {[fn |-> "next"] @@ c : c \in Cells}
    /\ ret = NoValue
    /\ pager = NoValue
    /\ history = NoValue
    /\ IdleCmp
    /\ IdleVarInt
    /\ IdleBtree
    /\ IdleProg

NextCell ==
    /\ args.fn = "next"
    /\ ret = NoValue
    /\ ret' = CellIter_next(args)
    /\ UNCHANGED <<args, pager, history, cmpVars, varintVars, btreeVars, progVars>>

NextPayload == NextCell

SpecPayload == InitPayload /\ [][NextPayload]_vars

(***************************************************************************)
(* btree.rs: a page as bytes.  PageHeader::deserialize / serialize and     *)
(* BtreePage::deserialize / serialize; the four page structs share one     *)
(* serialize.  Offsets count from 0 as in the code, sequences from 1.      *)
(***************************************************************************)
PageBytes == 128      \* bytes of a page of the model's files (a real page has 512 or more)
MaxFilePages == 3     \* pages of a file
MaxCells == 2         \* cell pointers of a generated page
FileHeaderLen == 100  \* `let offset = if page_num == 1 { 100 } else { 0 }`

PageTypeBytes == {2, 5, 10, 13}
InteriorTypeBytes == {2, 5}

be_u8(i, pos) == i[pos + 1]
be_u16(i, pos) == (i[pos + 1] * 256) + i[pos + 2]
\* Four bytes as a u32; the files of the model keep the first byte below 128.
be_u32(i, pos) == (be_u16(i, pos) * 65536) + be_u16(i, pos + 2)

u16_to_be_bytes(v) == <<v \div 256, v % 256>>
u32_to_be_bytes(v) == u16_to_be_bytes(v \div 65536) \o u16_to_be_bytes(v % 65536)

RECURSIVE Flatten(_)
Flatten(ss) == IF ss = <<>> THEN <<>> ELSE Head(ss) \o Flatten(Tail(ss))

\* PageType::try_from(byte).unwrap() on a byte that is no page type: the
\* unwrap panics.
BadPageType == Panic

\* PageHeader::deserialize(&i[offset..], offset); a slice past the end of the
\* page panics as well.
PageHeader_deserialize(i, offset) ==
    LET page_type == be_u8(i, offset)
        num_cells == be_u16(i, offset + 3)
        interior == page_type \in InteriorTypeBytes
        ptrs == offset + (IF interior THEN 12 ELSE 8)
    IN  IF page_type \notin PageTypeBytes THEN BadPageType
        ELSE IF ptrs + (2 * num_cells) > Len(i) THEN Panic
        ELSE Ok([page_type |-> page_type,
                 offset |-> offset,
                 first_freeblock |-> be_u16(i, offset + 1),
                 num_cells |-> num_cells,
                 cell_start |-> be_u16(i, offset + 5),
                 fragmented_bytes |-> be_u8(i, offset + 7),
                 right_pointer |-> IF interior THEN Some(be_u32(i, offset + 8))
                                   ELSE None,
                 cell_pointers |-> [c \in 1..num_cells |->
                                       be_u16(i, ptrs + (2 * (c - 1)))]])

PageHeader_serialize(h) ==
    <<h.page_type>>
    \o u16_to_be_bytes(h.first_freeblock)
    \o u16_to_be_bytes(h.num_cells)
    \o u16_to_be_bytes(h.cell_start)
    \o <<h.fragmented_bytes>>
    \o (IF h.right_pointer.t = "Some" THEN u32_to_be_bytes(h.right_pointer.rec)
        ELSE <<>>)
    \o Flatten([c \in 1..Len(h.cell_pointers) |-> u16_to_be_bytes(h.cell_pointers[c])])

\* The offset of the page header in the page.
HeaderOffset(pgno) == IF pgno = 1 THEN FileHeaderLen ELSE 0

BtreePage_deserialize(i, pgno, page_size, reserved_space) ==
    LET header == PageHeader_deserialize(i, HeaderOffset(pgno)) IN
    IF header.t # "Ok" THEN header
    ELSE Ok([header |-> header.v,
             bytes |-> i,
             page_size |-> page_size,
             reserved_space |-> reserved_space])

\* serialize of TableLeafPage, IndexLeafPage, TableInteriorPage and
\* IndexInteriorPage: the header, then the bytes kept from
\* header.offset + output.len() on.
BtreePage_serialize(pg) ==
    LET out == PageHeader_serialize(pg.header)
        offset == pg.header.offset + Len(out)
    IN  out \o SubSeq(pg.bytes, offset + 1, Len(pg.bytes))


(***************************************************************************)
(* pager.rs: the Pager.  The file is its bytes, the cache an LruCache as   *)
(* the sequence of its (key, value) entries, most recently used first.     *)
(***************************************************************************)
CacheCapacity == 10   \* LruCache::new(10)
ReservedBytes == 2    \* reserved_space of the model's files

LruPeek(cache, k) == \E e \in 1..Len(cache) : cache[e].key = k

LruWithout(cache, k) == SelectSeq(cache, LAMBDA e : e.key # k)

LruPut_unbounded(cache, k, v) ==
    <<[key |-> k, value |-> v]>> \o SelectSeq(cache, LAMBDA e : e.key # k)

\* LruCache::put: the entry becomes the most recently used one; the least
\* recently used entry is dropped from a full cache.
LruPut(cache, k, v) ==
    LET c == <<[key |-> k, value |-> v]>> \o LruWithout(cache, k) IN
    IF Len(c) > CacheCapacity THEN SubSeq(c, 1, CacheCapacity) ELSE c

LruValue_mru(cache, k) == cache[1].value

LruValue(cache, k) ==
    cache[CHOOSE e \in 1..Len(cache) : cache[e].key = k].value

LruGet_noPromote(cache, k) == cache

\* LruCache::get: the entry becomes the most recently used one.
LruGet(cache, k) == LruPut(cache, k, LruValue(cache, k))

\* Pager::read_from_file.  For page_num = 0 the subtraction page_num - 1
\* overflows: a build with overflow checks panics, a build without them
\* reads at a wrapped offset, which the system rejects.
read_from_file(pgno) ==
    IF pgno <= pager.num_pages
    THEN IF pgno = 0
         THEN {Panic, ErrOf("read_at: invalid offset")}
         ELSE {Ok(SubSeq(pager.file,
                         ((pgno - 1) * pager.page_size) + 1,
                         ((pgno - 1) * pager.page_size) + pager.page_size))}
    ELSE {ErrOf("Tried to access non-existent page.")}

\* The body Pager::get_page and Pager::get_page_mut share: the triples of
\* the result, the cache it leaves and the number of calls of read_from_file.
\* Hit is cache.get or cache.get_mut.
get_page_via(pgno, Hit(_, _)) ==
    IF pgno > pager.num_pages
    THEN {<<ErrOf("Trying to access page that does not exist."), pager.cache, 0>>}
    ELSE IF LruPeek(pager.cache, pgno)
    THEN {<<Ok(LruValue(pager.cache, pgno)), Hit(pager.cache, pgno), 0>>}
    ELSE {LET parsed_page == IF page.t # "Ok" THEN page
                             ELSE BtreePage_deserialize(page.v, pgno, pager.page_size,
                                                        pager.reserved_space)
          IN  IF parsed_page.t # "Ok" THEN <<parsed_page, pager.cache, 1>>
              ELSE LET put == LruPut(pager.cache, pgno, parsed_page.v) IN
                   <<Ok(LruValue(put, pgno)), Hit(put, pgno), 1>>
          : page \in read_from_file(pgno)}

\* Pager::get_page
get_page(pgno) == get_page_via(pgno, LruGet)

\* LruCache::get_mut: as get, the entry becomes the most recently used one.
LruGetMut(cache, k) == LruGet(cache, k)

\* Pager::get_page_mut
get_page_mut(pgno) == get_page_via(pgno, LruGetMut)

\* Pager::insert
insert(pgno, page) == LruPut(pager.cache, pgno, page)

\* PageHeader::new and BtreePage::new: an empty page of the given type.
PageHeader_new(page_type, page_size, reserved_space) ==
    [page_type |-> page_type,
     offset |-> 0,
     first_freeblock |-> 0,
     num_cells |-> 0,
     cell_start |-> IF page_size - reserved_space > 65535 THEN 0
                    ELSE page_size - reserved_space,
     fragmented_bytes |-> 0,
     right_pointer |-> None,
     cell_pointers |-> <<>>]

BtreePage_new(page_type, page_size, reserved_space) ==
    [header |-> PageHeader_new(page_type, page_size, reserved_space),
     bytes |-> <<>>,
     page_size |-> page_size,
     reserved_space |-> reserved_space]

(***************************************************************************)
(* The files of the model: page p starts with the file header when p = 1,  *)
(* then the page header, the cell pointers, a gap, cells of three bytes    *)
(* and the reserved trailer.                                               *)
(***************************************************************************)
TypeAt(j) == <<13, 5, 10, 2, 0, 7>>[(j % 6) + 1]

PageOf(p, ty, ncells, filler) ==
    LET cell_start == PageBytes - ReservedBytes - (3 * ncells)
        hdr == <<ty, 0, 0>> \o u16_to_be_bytes(ncells) \o u16_to_be_bytes(cell_start)
               \o <<0>>
               \o (IF ty \in InteriorTypeBytes THEN u32_to_be_bytes(p + 1) ELSE <<>>)
        ptrs == Flatten([c \in 1..ncells |-> u16_to_be_bytes(cell_start + (3 * (c - 1)))])
        head == [k \in 1..HeaderOffset(p) |-> 83] \o hdr \o ptrs
    IN  head \o [k \in 1..(PageBytes - Len(head)) |->
                    IF Len(head) + k > PageBytes - ReservedBytes THEN 204
                    ELSE IF Len(head) + k > cell_start THEN 17
                    ELSE filler]

FileOf(n, shift, filler) ==
    Flatten([p \in 1..n |->
                PageOf(p, TypeAt(p + shift), (p + shift) % (MaxCells + 1), filler)])

Files == {FileOf(n, shift, filler) :
            n \in 1..MaxFilePages, shift \in 0..5, filler \in {0, 238}}

\* Pager::new on a file that is a whole number of pages.
Pager_new(file) ==
    [file |-> file,
     cache |-> <<>>,
     num_pages |-> Len(file) \div PageBytes,
     page_size |-> PageBytes,
     reserved_space |-> ReservedBytes]

(***************************************************************************)
(* SpecPager: pages are read, fetched through the cache, and parsed and    *)
(* written back.  A call that panicked ends the program.                   *)
(***************************************************************************)
NoHistory == [accessed |-> <<>>, reads |-> 0, written |-> {}]

InitPager ==
    /\ pager \in {Pager_new(f) : f \in Files}
    /\ history = NoHistory
    /\ args = NoValue
    /\ ret = NoValue
    /\ IdleCmp
    /\ IdleVarInt
    /\ IdleBtree
    /\ IdleProg

Running == ret = NoValue \/ ret.t # "panic"

\* The page k becomes the one accessed last.
Touch(accessed, k) == <<k>> \o SelectSeq(accessed, LAMBDA x : x # k)

Pager_read_from_file ==
    /\ Running
    /\ \E pgno \in 0..(pager.num_pages + 1) :
         /\ args' = [fn |-> "read_from_file", page_num |-> pgno]
         /\ ret' \in read_from_file(pgno)
         /\ history' = [history EXCEPT !.reads = IF pgno <= pager.num_pages THEN 1 ELSE 0]
    /\ UNCHANGED <<pager, cmpVars, varintVars, btreeVars, progVars>>

\* A call fn(pgno) of get_page or get_page_mut with the given outcomes.
GetPageCall(fn, pgno, outcomes) ==
    /\ args' = [fn |-> fn, page_num |-> pgno]
    /\ \E o \in outcomes :
         /\ ret' = o[1]
         /\ pager' = [pager EXCEPT !.cache = o[2]]
         /\ history' = [history EXCEPT
                           !.accessed = IF o[1].t = "Ok" THEN Touch(@, pgno) ELSE @,
                           !.reads = o[3]]

Pager_get_page ==
    /\ Running
    /\ \E pgno \in 0..(pager.num_pages + 1) :
         GetPageCall("get_page", pgno, get_page(pgno))
    /\ UNCHANGED <<cmpVars, varintVars, btreeVars, progVars>>

\* BtreePage::deserialize of a page of the file, then serialize of the result.
RoundTrip ==
    /\ Running
    /\ \E pgno \in 1..pager.num_pages : \E page \in read_from_file(pgno) :
         /\ args' = [fn |-> "deserialize", page_num |-> pgno, i |-> page.v]
         /\ ret' = LET pg == BtreePage_deserialize(page.v, pgno, pager.page_size,
                                                   pager.reserved_space)
                   IN  IF pg.t # "Ok" THEN pg
                       ELSE pg @@ [bytes |-> BtreePage_serialize(pg.v)]
    /\ UNCHANGED <<pager, history, cmpVars, varintVars, btreeVars, progVars>>

NextPager ==
    \/ Pager_read_from_file
    \/ Pager_get_page
    \/ RoundTrip

SpecPager == InitPager /\ [][NextPager]_vars

(***************************************************************************)
(* SpecCache: a program walks over a file with more pages than the cache   *)
(* holds, through get_page, get_page_mut and insert.  Every request is for *)
(* the page requested before or for one of its two neighbours; insert      *)
(* replaces one of the first MaxInsertPage pages.                          *)
(***************************************************************************)
MaxExtraPages == 1   \* pages of the largest file beyond CacheCapacity
MaxInsertPage == 1   \* Pager::insert is called for the pages 1..MaxInsertPage

ValidTypeAt(j) == <<13, 5, 10, 2>>[(j % 4) + 1]

ValidFileOf(n) ==
    Flatten([p \in 1..n |-> PageOf(p, ValidTypeAt(p), p % (MaxCells + 1), 238)])

CacheFiles ==
    {ValidFileOf(n) : n \in {2} \cup ((CacheCapacity + 1)..(CacheCapacity + MaxExtraPages))}

Requests ==
    LET prev == IF args = NoValue THEN 0 ELSE args.page_num IN
    {prev - 1, prev, prev + 1} \cap 0..(pager.num_pages + 1)

InitCache ==
    /\ pager \in {Pager_new(f) : f \in CacheFiles}
    /\ history = NoHistory
    /\ args = NoValue
    /\ ret = NoValue
    /\ IdleCmp
    /\ IdleVarInt
    /\ IdleBtree
    /\ IdleProg

Cache_get_page ==
    /\ Running
    /\ \E pgno \in Requests : GetPageCall("get_page", pgno, get_page(pgno))
    /\ UNCHANGED <<cmpVars, varintVars, btreeVars, progVars>>

Cache_get_page_mut ==
    /\ Running
    /\ \E pgno \in Requests : GetPageCall("get_page_mut", pgno, get_page_mut(pgno))
    /\ UNCHANGED <<cmpVars, varintVars, btreeVars, progVars>>

\* Pager::insert of a new, empty table leaf.
Cache_insert ==
    /\ Running
    /\ \E pgno \in Requests \cap 1..MaxInsertPage :
         /\ args' = [fn |-> "insert", page_num |-> pgno]
         /\ ret' = Ok(<<>>)
         /\ pager' = [pager EXCEPT !.cache =
                         insert(pgno, BtreePage_new(13, pager.page_size,
                                                    pager.reserved_space))]
         /\ history' = [accessed |-> Touch(history.accessed, pgno),
                        reads |-> 0,
                        written |-> history.written \cup {pgno}]
    /\ UNCHANGED <<cmpVars, varintVars, btreeVars, progVars>>

NextCache ==
    \/ Cache_get_page
    \/ Cache_get_page_mut
    \/ Cache_insert

SpecCache == InitCache /\ [][NextCache]_vars

(***************************************************************************)
(* The freelist: FreelistPage and the walk of main over the trunk pages.   *)
(***************************************************************************)
\* FreelistPage::deserialize: u32 next page (0 for none), u32 list size,
\* then list size u32 page numbers from byte 8 on.  A slice that ends
\* behind the page panics.
FreelistPage_deserialize(i) ==
    IF Len(i) < 8 THEN Panic
    ELSE LET next_page == be_u32(i, 0)
             list_size == be_u32(i, 4)
         IN  IF list_size > 0 /\ ((list_size + 1) * 4) + 4 > Len(i) THEN Panic
             ELSE Ok([free_pages |-> [k \in 1..list_size |-> be_u32(i, (k + 1) * 4)],
                      next_page_link |-> IF next_page > 0 THEN SomeUsize(next_page)
                                         ELSE None])

\* usize::to_be_bytes: as many bytes as the target's usize has.
usize_to_be_bytes(v, usize_bytes) ==
    [k \in 1..(usize_bytes - 4) |-> 0] \o u32_to_be_bytes(v)

\* FreelistPage::serialize: the link (a usize, or the u32 0), the length of
\* the list (a usize), the page numbers (each a usize), zeros up to
\* page_size; page_size - output.len() overflows when the fields are longer
\* than the page.
FreelistPage_serialize(f, page_size, usize_bytes) ==
    LET link == IF f.next_page_link.t = "Some"
                THEN usize_to_be_bytes(f.next_page_link.v, usize_bytes)
                ELSE u32_to_be_bytes(0)
        out == link \o usize_to_be_bytes(Len(f.free_pages), usize_bytes)
               \o Flatten([k \in 1..Len(f.free_pages) |->
                              usize_to_be_bytes(f.free_pages[k], usize_bytes)])
    IN  IF page_size < Len(out) THEN Panic
        ELSE Ok(out \o [k \in 1..(page_size - Len(out)) |-> 0])

\* The widths of usize on the targets the crate builds for.
UsizeBytes == {4, 8}

MaxFreeLen == 3
MaxFreePage == 3

FreelistPages ==
    {[free_pages |-> fp, next_page_link |-> nl] :
        fp \in UNION {[1..n -> 1..MaxFreePage] : n \in 0..MaxFreeLen},
        nl \in {None} \cup {SomeUsize(n) : n \in 1..MaxFreePage}}

InitFreelistPage ==
    /\ args \in {[f |-> f, page_size |-> PageBytes, usize_bytes |-> w] :
                    f \in FreelistPages, w \in UsizeBytes}
    /\ ret = NoValue
    /\ pager = NoValue
    /\ history = NoValue
    /\ IdleCmp
    /\ IdleVarInt
    /\ IdleBtree
    /\ IdleProg

\* f.serialize(page_size), then FreelistPage::deserialize of the bytes.
FreelistRoundTrip ==
    /\ ret = NoValue
    /\ LET out == FreelistPage_serialize(args.f, args.page_size, args.usize_bytes)
       IN  ret' = [t |-> out.t,
                   bytes |-> IF out.t = "Ok" THEN out.v ELSE <<>>,
                   back |-> IF out.t = "Ok" THEN FreelistPage_deserialize(out.v)
                            ELSE out]
    /\ UNCHANGED <<args, pager, history, cmpVars, varintVars, btreeVars, progVars>>

NextFreelistPage == FreelistRoundTrip

SpecFreelistPage == InitFreelistPage /\ [][NextFreelistPage]_vars

\* A file whose freelist is a chain of trunk pages: page 1 is the header
\* page, the trunks are pages 2, 3, ... in the order of the chain, and every
\* trunk lists its leaves, pages behind the trunks that no other trunk lists.
MaxTrunks == 3
MaxLeaves == 2
MaxCollected == 8

TrunkPage(next, leaves) ==
    LET head == u32_to_be_bytes(next) \o u32_to_be_bytes(Len(leaves))
                \o Flatten([k \in 1..Len(leaves) |-> u32_to_be_bytes(leaves[k])])
    IN  head \o [k \in 1..(PageBytes - Len(head)) |-> 0]

\* counts[t] is the number of leaves of the t-th trunk.
FreelistFileOf(counts) ==
    LET ntrunks == Len(counts)
        npages == 1 + ntrunks + (ntrunks * MaxLeaves)
        leaves(t) == [k \in 1..counts[t] |-> 1 + ntrunks + ((t - 1) * MaxLeaves) + k]
    IN  Flatten([p \in 1..npages |->
            IF p = 1 THEN PageOf(1, 13, 0, 0)
            ELSE IF p <= 1 + ntrunks
            THEN TrunkPage(IF p - 1 < ntrunks THEN p + 1 ELSE 0, leaves(p - 1))
            ELSE [k \in 1..PageBytes |-> 0]])

FreelistFiles ==
    {FreelistFileOf(counts) :
        counts \in UNION {[1..n -> 0..MaxLeaves] : n \in 1..MaxTrunks}}

InitFreelist ==
    /\ pager \in {Pager_new(f) : f \in FreelistFiles}
    /\ args = [first_freelist |-> 2]
    /\ ret = NoValue
    /\ history = NoValue
    /\ freelist = NoValue
    /\ freelist_pages = <<>>
    /\ table = NoValue
    /\ IdleCmp
    /\ IdleVarInt
    /\ IdleBtree

\* FreelistPage::deserialize(&pager.read_from_file(n)?)?
ReadTrunk(pgno) ==
    {IF page.t = "Ok" THEN FreelistPage_deserialize(page.v) ELSE page :
        page \in read_from_file(pgno)}

\* main, up to the loop: the first trunk is pushed, read and parsed into
\* freelist, its leaves are appended.
main_first_trunk ==
    /\ ret = NoValue
    /\ freelist = NoValue
    /\ \E trunk \in ReadTrunk(args.first_freelist) :
         IF trunk.t = "Ok"
         THEN /\ freelist' = trunk.v
              /\ freelist_pages' = <<args.first_freelist>> \o trunk.v.free_pages
              /\ ret' = ret
         ELSE /\ ret' = trunk
              /\ freelist_pages' = <<args.first_freelist>>
              /\ freelist' = freelist
    /\ UNCHANGED <<args, pager, history, table, cmpVars, varintVars, btreeVars>>

\* One iteration of `while let Some(next) = freelist.next_page_link`: the
\* page read in the body is bound to a new variable freelist of the body's
\* scope, the one the loop tests is not assigned.  The vector grows as long
\* as memory lasts, MaxCollected entries in the model.
main_next_trunk ==
    /\ ret = NoValue
    /\ freelist # NoValue
    /\ freelist.next_page_link.t = "Some"
    /\ Len(freelist_pages) < MaxCollected
    /\ LET next == freelist.next_page_link.v IN
       \E trunk \in ReadTrunk(next) :
         IF trunk.t = "Ok"
         THEN /\ freelist_pages' = Append(freelist_pages, next) \o trunk.v.free_pages
              /\ ret' = ret
         ELSE /\ ret' = trunk
              /\ freelist_pages' = Append(freelist_pages, next)
    /\ UNCHANGED <<freelist, args, pager, history, table, cmpVars, varintVars, btreeVars>>

\* The loop ends when the tested link is None.
main_walk_done ==
    /\ ret = NoValue
    /\ freelist # NoValue
    /\ freelist.next_page_link.t = "None"
    /\ ret' = Ok(freelist_pages)
    /\ UNCHANGED <<freelist, freelist_pages, args, pager, history, table,
                   cmpVars, varintVars, btreeVars>>

\* The vector cannot grow any more: the allocation fails and the process
\* is aborted.
main_out_of_memory ==
    /\ ret = NoValue
    /\ freelist # NoValue
    /\ freelist.next_page_link.t = "Some"
    /\ Len(freelist_pages) >= MaxCollected
    /\ ret' = [t |-> "abort"]
    /\ UNCHANGED <<freelist, freelist_pages, args, pager, history, table,
                   cmpVars, varintVars, btreeVars>>

NextFreelist ==
    main_first_trunk \/ main_next_trunk \/ main_walk_done \/ main_out_of_memory

SpecFreelist == InitFreelist /\ [][NextFreelist]_vars /\ WF_vars(NextFreelist)

(***************************************************************************)
(* btree.rs: the record codec, Record::deserialize and Record::serialize,  *)
(* with datatypes.rs: Value::new.                                          *)
(***************************************************************************)
\* The i64 of a VarInt as the usize or the serial type the codec uses it
\* for: negative when the top bit is set, and one number beyond every slice
\* of the model when it does not fit in 31 bits.
Huge == (2 ^ 30) + ((2 ^ 30) - 1)

RECURSIVE BitsValue(_, _)
BitsValue(x, p) == IF p < 0 THEN 0 ELSE (x[p] * (2 ^ p)) + BitsValue(x, p - 1)

VarInt_value(x) ==
    IF x[63] = 1 THEN 0 - 1
    ELSE IF \E p \in 30..62 : x[p] = 1 THEN Huge
    ELSE BitsValue(x, 29)

\* VarInt::deserialize, which the crate calls where datatypes.rs defines
\* VarInt::parse: the value and the number of bytes read.
VarInt_deserialize(bs) ==
    LET p == VarInt_parse(bs) IN [value |-> VarInt_value(p.value), len |-> p.len]

\* iN::from_be_bytes: the magnitude of the bytes (of their complement when
\* flip), most significant first; a magnitude beyond the integers of the
\* model stays at Huge.
RECURSIVE be_magnitude(_, _)
be_magnitude(bs, flip) ==
    IF bs = <<>> THEN 0
    ELSE LET last == bs[Len(bs)]
             digit == IF flip THEN 255 - last ELSE last
             upper == be_magnitude(SubSeq(bs, 1, Len(bs) - 1), flip)
         IN  IF upper > (Huge - digit) \div 256 THEN Huge
             ELSE (256 * upper) + digit

int_from_be_bytes(bs) ==
    IF bs[1] < 128 THEN be_magnitude(bs, FALSE) ELSE (0 - 1) - be_magnitude(bs, TRUE)

\* String::from_utf8_lossy on bytes that are ASCII or 0xFF: every 0xFF is
\* replaced by U+FFFD.
from_utf8_lossy(bs) == [k \in 1..Len(bs) |-> IF bs[k] < 128 THEN bs[k] ELSE 65533]

\* value.try_into().expect("Slice with incorrect length") into [u8; n].
FitsArray(value, n) == Len(value) = n

\* Value::new: the integer arms convert the slice to the array of the
\* integer type they build (i32 for Int24, i64 for Int48) and panic when the
\* slice has another length.
Value_new(data_type, value) ==
    CASE data_type.t = "Null" -> Null
      [] data_type.t = "Int8" ->
            IF FitsArray(value, 1) THEN IntV("Int8", int_from_be_bytes(value)) ELSE Panic
      [] data_type.t = "Int16" ->
            IF FitsArray(value, 2) THEN IntV("Int16", int_from_be_bytes(value)) ELSE Panic
      [] data_type.t = "Int24" ->
            IF FitsArray(value, 4) THEN IntV("Int24", int_from_be_bytes(value)) ELSE Panic
      [] data_type.t = "Int32" ->
            IF FitsArray(value, 4) THEN IntV("Int32", int_from_be_bytes(value)) ELSE Panic
      [] data_type.t = "Int48" ->
            IF FitsArray(value, 8) THEN IntV("Int48", int_from_be_bytes(value)) ELSE Panic
      [] data_type.t = "Int64" ->
            IF FitsArray(value, 8) THEN IntV("Int64", int_from_be_bytes(value)) ELSE Panic
      [] data_type.t = "Float" ->
            IF FitsArray(value, 8) THEN [t |-> "Float", bits |-> value] ELSE Panic
      [] data_type.t = "Integer0" -> Integer0
      [] data_type.t = "Integer1" -> Integer1
      [] data_type.t = "Internal" -> InternalV(value)
      [] data_type.t = "Blob" -> BlobV(value)
      [] OTHER -> StringV(from_utf8_lossy(value))

\* The while loop of Record::deserialize over the header, from position pos
\* with header_left bytes to go.
RECURSIVE header_loop(_, _, _, _)
header_loop(header, pos, header_left, col_types) ==
    IF header_left <= 0 THEN Ok(col_types)
    ELSE LET next_bytes == IF header_left < 9 THEN header_left ELSE 9
             v == VarInt_deserialize(SubSeq(header, pos + 1, pos + next_bytes))
             col_type == DataType_from_varint(v.value)
         IN  IF col_type.t # "Ok" THEN Panic
             ELSE header_loop(header, pos + v.len, header_left - v.len,
                              Append(col_types, col_type.v))

\* The for loop of Record::deserialize over the columns: a column whose
\* type has a size takes the next size bytes of values_input.
RECURSIVE values_loop(_, _, _, _, _)
values_loop(col_types, k, values_input, pos, values) ==
    IF k > Len(col_types) THEN Ok(values)
    ELSE LET size == DataType_get_size(col_types[k]) IN
         IF size.t = "None"
         THEN values_loop(col_types, k + 1, values_input, pos, values)
         ELSE IF pos + size.v > Len(values_input) THEN Panic
         ELSE LET val == Value_new(col_types[k],
                                   SubSeq(values_input, pos + 1, pos + size.v))
              IN  IF val = Panic THEN Panic
                  ELSE values_loop(col_types, k + 1, values_input, pos + size.v,
                                   Append(values, val))

\* Record::deserialize.
Record_deserialize(i) ==
    LET hs == VarInt_deserialize(i)
        header_size == hs.value
        b == hs.len
    IN  IF header_size < b \/ header_size > Len(i) THEN Panic
        ELSE LET header == SubSeq(i, b + 1, header_size)
                 cols == header_loop(header, 0, Len(header), <<>>)
             IN  IF cols.t # "Ok" THEN Panic
                 ELSE LET vals == values_loop(cols.v, 1,
                                              SubSeq(i, header_size + 1, Len(i)),
                                              0, <<>>)
                      IN  IF vals.t # "Ok" THEN Panic
                          ELSE Ok([col_types |-> cols.v, values |-> vals.v])

\* DataType::to_varint: the serial type DataType::from_varint maps to the
\* variant.
DataType_to_varint(dt) ==
    CASE dt.t = "Null" -> 0
      [] dt.t = "Int8" -> 1
      [] dt.t = "Int16" -> 2
      [] dt.t = "Int24" -> 3
      [] dt.t = "Int32" -> 4
      [] dt.t = "Int48" -> 5
      [] dt.t = "Int64" -> 6
      [] dt.t = "Float" -> 7
      [] dt.t = "Integer0" -> 8
      [] dt.t = "Integer1" -> 9
      [] dt.t = "Internal" -> 10
      [] dt.t = "Blob" -> 12 + (2 * dt.size)
      [] OTHER -> 13 + (2 * dt.size)

\* VarInt::serialize of a value below 2^14: one byte, or two with the
\* continuation bit on the first.
VarInt_serialize(n) ==
    IF n < 128 THEN <<n>> ELSE <<128 + (n \div 128), n % 128>>

\* iN::to_be_bytes: width bytes, two's complement.
RECURSIVE int_to_be_bytes(_, _)
int_to_be_bytes(n, width) ==
    IF width = 0 THEN <<>>
    ELSE Append(int_to_be_bytes((n - (n % 256)) \div 256, width - 1), n % 256)

\* Value::serialize: the bytes of the value at the width of its type.
Value_serialize(val) ==
    CASE val.t \in {"Null", "Integer0", "Integer1"} -> <<>>
      [] val.t = "Int8" -> int_to_be_bytes(val.v, 1)
      [] val.t = "Int16" -> int_to_be_bytes(val.v, 2)
      [] val.t = "Int24" -> int_to_be_bytes(val.v, 3)
      [] val.t = "Int32" -> int_to_be_bytes(val.v, 4)
      [] val.t = "Int48" -> int_to_be_bytes(val.v, 6)
      [] val.t = "Int64" -> int_to_be_bytes(val.v, 8)
      [] val.t = "Float" -> val.bits
      [] OTHER -> val.v

\* Record::serialize: the serial type varints of the columns, then the
\* values.
Record_serialize(self) ==
    Flatten([k \in 1..Len(self.col_types) |->
                VarInt_serialize(DataType_to_varint(self.col_types[k]))])
    \o Flatten([k \in 1..Len(self.values) |-> Value_serialize(self.values[k])])

\* The columns of the records of the model: a type and a value of it.
MaxCodecCols == 2
MaxCodecInt == 2

CodecColumns ==
    {<<Sized("Null", 0), Null>>, <<Sized("Integer0", 0), Integer0>>,
     <<Sized("Integer1", 0), Integer1>>,
     <<Sized("Float", 8), [t |-> "Float", bits |-> <<63, 240, 0, 0, 0, 0, 0, 0>>]>>}
    \cup {<<Sized(ty[1], ty[2]), IntV(ty[1], n)>> :
            ty \in {<<"Int8", 1>>, <<"Int16", 2>>, <<"Int32", 4>>, <<"Int64", 8>>},
            n \in (0 - MaxCodecInt)..MaxCodecInt}

CodecRecords ==
    {[col_types |-> [k \in 1..Len(cs) |-> cs[k][1]],
      values |-> [k \in 1..Len(cs) |-> cs[k][2]]] :
        cs \in UNION {[1..n -> CodecColumns] : n \in 0..MaxCodecCols}}

\* Stored records: the header size, the serial types, and for every column
\* its bytes, the sign byte sign repeated up to the last byte last.
StoredTypes == {0, 1, 2, 3, 4, 5, 8, 9}

StoredWidth(ty) == DataType_get_size(DataType_from_varint(ty).v).v

StoredRecord(types, sign, last) ==
    <<Len(types) + 1>> \o types
    \o Flatten([k \in 1..Len(types) |->
                  [j \in 1..StoredWidth(types[k]) |->
                      IF j = StoredWidth(types[k]) THEN last ELSE sign]])

StoredRecords ==
    {StoredRecord(types, sign, last) :
        types \in UNION {[1..n -> StoredTypes] : n \in 1..MaxCodecCols},
        sign \in {0, 255}, last \in {1, 128, 255}}

InitCodec ==
    /\ args \in {[fn |-> "serialize", self |-> r] : r \in CodecRecords}
                \cup {[fn |-> "deserialize", i |-> i] : i \in StoredRecords}
    /\ ret = NoValue
    /\ pager = NoValue
    /\ history = NoValue
    /\ IdleCmp
    /\ IdleVarInt
    /\ IdleBtree
    /\ IdleProg

\* Record::deserialize of a stored record.
Codec_deserialize ==
    /\ ret = NoValue
    /\ args.fn = "deserialize"
    /\ ret' = Record_deserialize(args.i)
    /\ UNCHANGED <<args, pager, history, cmpVars, varintVars, btreeVars, progVars>>

\* r.serialize(), then Record::deserialize of the bytes.
Codec_serialize ==
    /\ ret = NoValue
    /\ args.fn = "serialize"
    /\ LET out == Record_serialize(args.self)
       IN  ret' = [t |-> "Ok", bytes |-> out, back |-> Record_deserialize(out)]
    /\ UNCHANGED <<args, pager, history, cmpVars, varintVars, btreeVars, progVars>>

NextCodec == Codec_deserialize \/ Codec_serialize

SpecCodec == InitCodec /\ [][NextCodec]_vars

(***************************************************************************)
(* The row-oriented prototype: table.rs (Row, Pager, Table, Cursor) and    *)
(* btree_copy.rs (Node, LeafNode).                                         *)
(***************************************************************************)
ID_SIZE == 4
USERNAME_SIZE == 32
EMAIL_SIZE == 255
ROW_SIZE == ID_SIZE + USERNAME_SIZE + EMAIL_SIZE
PAGE_SIZE == 4096

NODE_TYPE_SIZE == 1
IS_ROOT_SIZE == 1
\* size_of::<&u32>() on a 64-bit target; with the 4 of a 32-bit target
\* LEAF_NODE_MAX_CELLS is the same.
PARENT_POINTER_SIZE == 8
COMMON_NODE_HEADER_SIZE == NODE_TYPE_SIZE + IS_ROOT_SIZE + PARENT_POINTER_SIZE
LEAF_NODE_NUM_CELLS_SIZE == 4
LEAF_NODE_HEADER_SIZE == COMMON_NODE_HEADER_SIZE + LEAF_NODE_NUM_CELLS_SIZE
LEAF_NODE_KEY_SIZE == 4
LEAF_NODE_CELL_SIZE == LEAF_NODE_KEY_SIZE + ROW_SIZE
LEAF_NODE_SPACE_FOR_CELLS == PAGE_SIZE - LEAF_NODE_HEADER_SIZE
LEAF_NODE_MAX_CELLS == LEAF_NODE_SPACE_FOR_CELLS \div LEAF_NODE_CELL_SIZE

\* Row::new: the first USERNAME_SIZE (EMAIL_SIZE) bytes of the strings in
\* arrays filled up with zeros.
ByteArray(s, size) == [k \in 1..size |-> IF k <= Len(s) THEN s[k] ELSE 0]

Row_new(id, username, email) ==
    [id |-> id,
     username |-> ByteArray(username, USERNAME_SIZE),
     email |-> ByteArray(email, EMAIL_SIZE)]

Row_default == Row_new(0, <<>>, <<>>)

Cell_new(key, value) == [key |-> key, value |-> value]

\* LeafNode::new; cells[c + 1] is the cell of index c.
LeafNode_new ==
    [is_root |-> FALSE,
     num_cells |-> 0,
     cells |-> [c \in 1..LEAF_NODE_MAX_CELLS |-> Cell_new(0, Row_default)]]

\* The test of the first if of LeafNode::insert.
LeafNode_over(self) == self.num_cells > LEAF_NODE_MAX_CELLS

\* LeafNode::insert.  With cell_num < num_cells the range
\* num_cells..cell_num of the for loop is empty; an index behind the array
\* panics, after num_cells was incremented.
LeafNode_insert(self, cell_num, key, value) ==
    IF LeafNode_over(self)
    THEN [t |-> "Err", e |-> "Need to implement splitting a leaf node.", node |-> self]
    ELSE LET grown == [self EXCEPT !.num_cells = self.num_cells + 1] IN
         IF cell_num >= LEAF_NODE_MAX_CELLS
         THEN [t |-> "panic", node |-> grown]
         ELSE [t |-> "Ok",
               node |-> [grown EXCEPT !.cells[cell_num + 1] = Cell_new(key, value)]]

\* Pager::new of table.rs for a file of file_length bytes; pages maps the
\* page numbers whose slot is Some to their node.
TablePager_new(file_length) ==
    [file_length |-> file_length,
     pages |-> <<>>,
     num_pages |-> file_length \div PAGE_SIZE]

\* The slot of the page, filled as Pager::get_page fills an empty one: a
\* page behind the file is a new leaf (the root when it is the first page,
\* and num_pages grows); a page of the file is what Node::deserialize
\* returns, a new leaf.
TablePager_get_page(p, pn) ==
    IF pn + 1 \in DOMAIN p.pages THEN p
    ELSE IF pn >= p.num_pages
    THEN [p EXCEPT !.pages = Append(p.pages, [LeafNode_new EXCEPT !.is_root = (p.num_pages = 0)]),
                   !.num_pages = p.num_pages + 1]
    ELSE [p EXCEPT !.pages = Append(p.pages, LeafNode_new)]

\* Pager::get_page_mut: as get_page, without the root mark and the count.
TablePager_get_page_mut(p, pn) ==
    IF pn + 1 \in DOMAIN p.pages THEN p
    ELSE [p EXCEPT !.pages = Append(p.pages, LeafNode_new)]

\* Pager::insert.
TablePager_insert(p, pn, cell_num, key, row) ==
    LET q == TablePager_get_page_mut(p, pn)
        done == LeafNode_insert(q.pages[pn + 1], cell_num, key, row)
    IN  [t |-> done.t, pager |-> [q EXCEPT !.pages[pn + 1] = done.node]]

\* Cursor::new and Table::new.
Cursor_new == [page_num |-> 0, cell_num |-> 0, at_end |-> FALSE]

Table_new(file_length) ==
    [pager |-> TablePager_new(file_length), root_page_num |-> 0, cursor |-> Cursor_new]

RootNode(t) == t.pager.pages[t.root_page_num + 1]

TableFull_over(node) == LeafNode_over(node)

\* The test of execute_insert on the root leaf.
TableFull(node) == node.num_cells >= LEAF_NODE_MAX_CELLS

\* Table::cursor_move_to_end.
cursor_move_to_end(t) ==
    LET u == [t EXCEPT !.pager = TablePager_get_page(t.pager, t.root_page_num)] IN
    [u EXCEPT !.cursor = [page_num |-> u.root_page_num,
                          cell_num |-> RootNode(u).num_cells,
                          at_end |-> TRUE]]

cursor_move_to_start_unset(t) ==
    LET u == [t EXCEPT !.pager = TablePager_get_page(t.pager, t.root_page_num)] IN
    [u EXCEPT !.cursor = [page_num |-> u.root_page_num, cell_num |-> 0,
                          at_end |-> FALSE]]

\* Table::cursor_move_to_start.
cursor_move_to_start(t) ==
    LET u == [t EXCEPT !.pager = TablePager_get_page(t.pager, t.root_page_num)] IN
    [u EXCEPT !.cursor = [page_num |-> u.root_page_num,
                          cell_num |-> 0,
                          at_end |-> RootNode(u).num_cells = 0]]

\* Table::cursor_value: Some(row), or the panic of an index behind the
\* array of cells.
cursor_value(t) ==
    IF t.cursor.cell_num >= LEAF_NODE_MAX_CELLS THEN Panic
    ELSE Some(t.pager.pages[t.cursor.page_num + 1].cells[t.cursor.cell_num + 1].value)

\* Table::cursor_advance.
cursor_advance(t) ==
    LET cell_num == t.cursor.cell_num + 1 IN
    [t EXCEPT !.cursor.cell_num = cell_num,
              !.cursor.at_end =
                  IF cell_num >= t.pager.pages[t.cursor.page_num + 1].num_cells
                  THEN TRUE ELSE t.cursor.at_end]

\* str::trim_matches(char::from(0)) on the bytes of an array.
trim_matches0(s) ==
    LET kept == {k \in 1..Len(s) : s[k] # 0} IN
    IF kept = {} THEN <<>>
    ELSE SubSeq(s, CHOOSE k \in kept : \A j \in kept : k <= j, Max(kept))

\* std::str::from_utf8 of an array whose bytes are ASCII.
from_utf8(s) == IF \A k \in 1..Len(s) : s[k] < 128 THEN Ok(s) ELSE ErrOf("Utf8Error")

\* The line execute_select formats for a row: (id, username, email).
RowLine(row) ==
    <<row.id, trim_matches0(from_utf8(row.username).v),
              trim_matches0(from_utf8(row.email).v)>>

\* The while loop of Table::execute_select: the lines so far and the table.
RECURSIVE select_loop(_, _)
select_loop(t, lines) ==
    IF t.cursor.at_end THEN [t |-> "Ok", v |-> lines, table |-> t]
    ELSE LET row == cursor_value(t) IN
         IF row = Panic \/ from_utf8(row.rec.username).t # "Ok"
                        \/ from_utf8(row.rec.email).t # "Ok"
         THEN [t |-> "panic", table |-> t]
         ELSE select_loop(cursor_advance(t), Append(lines, RowLine(row.rec)))

\* Table::execute_select.
Table_execute_select(t) == select_loop(cursor_move_to_start(t), <<>>)

\* Table::execute_insert.
Table_execute_insert(t, row) ==
    LET u == [t EXCEPT !.pager = TablePager_get_page(t.pager, t.root_page_num)] IN
    IF TableFull(RootNode(u)) THEN [t |-> "Err", e |-> "Table full.", table |-> u]
    ELSE LET w == cursor_move_to_end(u)
             done == TablePager_insert(w.pager, w.cursor.page_num, w.cursor.cell_num,
                                       row.id, row)
         IN  [t |-> done.t,
              e |-> "Need to implement splitting a leaf node.",
              v |-> "Executed.",
              table |-> [w EXCEPT !.pager = done.pager]]

\* The rows Statement::prepare hands to execute_insert: Row::new of an id
\* and of strings no longer than the arrays.  The id of the next row is the
\* id of the last one or the one after it.
MaxRowId == 2

RowOf(id) == Row_new(id, [k \in 1..id |-> 96 + k], <<101, 64, 102>>)

NextRows ==
    LET last == IF history = <<>> THEN 1 ELSE history[Len(history)].id
    IN  {RowOf(id) : id \in {last, last + 1} \cap 1..MaxRowId}

\* Table::new on an empty file or on a file of one page; history lists
\* the rows inserted, in the order of their execute_insert calls.
InitTable ==
    /\ table \in {Table_new(0), Table_new(PAGE_SIZE)}
    /\ history = <<>>
    /\ args = NoValue
    /\ ret = NoValue
    /\ pager = NoValue
    /\ freelist = NoValue
    /\ freelist_pages = <<>>
    /\ IdleCmp
    /\ IdleVarInt
    /\ IdleBtree

execute_insert ==
    /\ ret = NoValue \/ ret.t # "panic"
    /\ \E row \in NextRows :
         LET done == Table_execute_insert(table, row) IN
         /\ args' = [fn |-> "execute_insert", row |-> row]
         /\ table' = done.table
         /\ ret' = IF done.t = "Ok" THEN Ok(done.v)
                   ELSE IF done.t = "Err" THEN ErrOf(done.e) ELSE Panic
         /\ history' = IF done.t = "Ok" THEN Append(history, row) ELSE history
    /\ UNCHANGED <<pager, freelist, freelist_pages, cmpVars, varintVars, btreeVars>>

execute_select ==
    /\ ret = NoValue \/ ret.t # "panic"
    /\ LET done == Table_execute_select(table) IN
         /\ args' = [fn |-> "execute_select"]
         /\ table' = done.table
         /\ ret' = IF done.t = "Ok" THEN Ok(done.v) ELSE Panic
    /\ UNCHANGED <<history, pager, freelist, freelist_pages, cmpVars, varintVars,
                   btreeVars>>

NextTable == execute_insert \/ execute_select

SpecTable == InitTable /\ [][NextTable]_vars

(***************************************************************************)
(* The navigator on files whose child pointers form a cycle: a pointer of  *)
(* an interior page of a complete tree is redirected to the root.          *)
(***************************************************************************)
\* The calls of the recursive helpers the stack of the model holds.
MaxCalls == 8

\* Child c of page p (the right pointer for c behind the cells) set to
\* target.
Redirect(base, p, c, target) ==
    [base EXCEPT !.pages[p] =
        IF c <= Len(@.cells)
        THEN [@ EXCEPT !.cells[c].child_ptr = target]
        ELSE [@ EXCEPT !.right_pointer = target]]

CyclicDatabases ==
    {Redirect(base, p, c, 1) :
        base \in {TableDb(d, k, 1, 0) : d \in 2..MaxDepth, k \in 1..MaxInteriorCells}
                 \cup {IndexDb(d, k, 1, 1) : d \in 2..MaxDepth, k \in 1..MaxInteriorCells},
        p \in 1..(MaxInteriorCells + 2), c \in 1..(MaxInteriorCells + 1)}

InitCyclic ==
    /\ db \in {d \in CyclicDatabases :
                 \E p \in 1..d.num_pages :
                    /\ d.pages[p].page_type \in {"TableInterior", "IndexInterior"}
                    /\ 1 \in {d.pages[p].cells[c].child_ptr : c \in 1..Len(d.pages[p].cells)}
                             \cup {d.pages[p].right_pointer}}
    /\ call = Idle
    /\ page_num = 0
    /\ stack = <<>>
    /\ output = <<>>
    /\ visited = <<>>
    /\ result = NoValue
    /\ IdleCmp
    /\ IdleVarInt
    /\ IdleFn
    /\ IdleProg

\* The recursion has no depth limit and no set of visited pages: the call
\* that does not fit the stack any more ends the process.
stack_overflow ==
    /\ call.phase = "running"
    /\ Len(visited) >= MaxCalls
    /\ call' = [call EXCEPT !.phase = "aborted"]
    /\ UNCHANGED <<db, page_num, stack, output, visited, result, cmpVars, varintVars,
                   fnVars, progVars>>

NextCyclic ==
    \/ get_row
    \/ Len(visited) < MaxCalls /\ get_row_rcrs
    \/ get_index
    \/ Len(visited) < MaxCalls /\ get_index_rcrs
    \/ list_records
    \/ Len(visited) < MaxCalls /\ list_records_rcrs
    \/ return
    \/ stack_overflow

SpecCyclic == InitCyclic /\ [][NextCyclic]_vars /\ WF_vars(NextCyclic)

(***************************************************************************)
(* Properties of the comparisons and of the varint decoder.                *)
(***************************************************************************)
Min(S) == CHOOSE x \in S : \A y \in S : x <= y

NumericTags == IntTypes \cup {"Integer0", "Integer1"}

\* The storage class of a value: NULL, numeric, text, blob.
ClassRank(x) ==
    CASE x.t = "Null" -> 0
      [] x.t \in NumericTags -> 1
      [] x.t = "String" -> 2
      [] x.t = "Blob" -> 3

HasClass(x) == x.t \in NumericTags \cup {"Null", "String", "Blob"}

\* C9: for values with null, integer, text or blob content, a value of a
\* lower storage class (NULL < numeric < text < blob) is Less and unequal;
\* two integers of any width variants compare and test equal by their
\* number; a < b exactly when b > a, and a == b exactly when b == a.
C9_ValueOrder ==
    (verdict.t = "value" /\ HasClass(lhs) /\ HasClass(rhs)) =>
        /\ ClassRank(lhs) < ClassRank(rhs) =>
               verdict.cmp = "Less" /\ ~verdict.eq
        /\ (ClassRank(lhs) = 1 /\ ClassRank(rhs) = 1) =>
               /\ verdict.cmp = IntCmp(get_int_val(lhs), get_int_val(rhs))
               /\ verdict.eq = (get_int_val(lhs) = get_int_val(rhs))
        /\ (verdict.cmp = "Less") = (verdict.cmp_rev = "Greater")
        /\ verdict.eq = verdict.eq_rev

C9_Witness ==
    /\ verdict.t = "value"
    /\ lhs = IntV("Int8", 1)
    /\ rhs = StringV(<<1>>)
    /\ verdict.cmp = "Less"
    /\ verdict.cmp_rev = "Greater"

\* The columns of a at which the comparison of a with b is decided.
DecidingCols(a, b) ==
    {i \in 1..Len(a) : i > Len(b) \/ ~Value_eq(a[i], b[i])}

\* C8: a.partial_cmp(b) is Greater as soon as a column of a has no column in
\* b, is the comparison of the first pair of differing columns otherwise, and
\* is Equal when all the columns of a are equal to those of b.
C8_RecordCmpClaimed ==
    verdict.t = "record" =>
        LET d == DecidingCols(lhs, rhs) IN
        verdict.cmp = IF d = {} THEN "Equal"
                      ELSE IF Min(d) > Len(rhs) THEN "Greater"
                      ELSE Value_partial_cmp(lhs[Min(d)], rhs[Min(d)])

\* The length C10 expects: the position of the first of the first eight bytes
\* with a clear top bit, 9 when there is none.
ExpectedLen(bs) ==
    LET T == {i \in 1..8 : bs[i] < 128} IN IF T = {} THEN 9 ELSE Min(T)

\* The value C10 expects for a varint of n bytes, bit by bit: seven bits a
\* byte, the last byte lowest; in a 9-byte varint the ninth byte gives the
\* low eight bits.
ExpectedValue(bs, n) ==
    [p \in BitPos |->
        IF n = 9
        THEN IF p < 8 THEN ByteBit(bs[9], p)
             ELSE ByteBit(bs[8 - ((p - 8) \div 7)], (p - 8) % 7)
        ELSE IF p \div 7 < n THEN ByteBit(bs[n - (p \div 7)], p % 7)
             ELSE 0]

\* C10: on a slice of at least 9 bytes VarInt::parse stops after the first of
\* the first eight bytes whose top bit is clear, builds the value from the
\* low seven bits of the bytes up to there, takes all eight bits of a ninth
\* byte, and no byte after the last one read changes value or length.
C10_VarIntParse ==
    (parsed.t = "parsed" /\ Len(bytes) >= 9) =>
        LET n == ExpectedLen(bytes)
            head == SubSeq(bytes, 1, parsed.len)
        IN  /\ parsed.len = n
            /\ parsed.value = ExpectedValue(bytes, n)
            /\ \A b \in ByteVals :
                   LET other == VarInt_parse(
                           head \o [i \in 1..(Len(bytes) - parsed.len) |-> b])
                   IN  other.value = parsed.value /\ other.len = parsed.len

C10_Witness ==
    /\ parsed.t = "parsed"
    /\ Len(bytes) >= 9
    /\ parsed.len = 9
    /\ bytes[9] = 255
    /\ parsed.value[63] = 1
    /\ parsed.value[0] = 1

(***************************************************************************)
(* Properties of the navigator.                                            *)
(***************************************************************************)
PageAt(n) == db.pages[n]

InteriorPages ==
    {p \in 1..db.num_pages :
        PageAt(p).page_type \in {"TableInterior", "IndexInterior"}}

\* The children of an interior page: the left child of every cell, then the
\* header's right-most child.
ChildrenOf(pg) ==
    [i \in 1..(Len(pg.cells) + 1) |->
        IF i <= Len(pg.cells) THEN pg.cells[i].child_ptr ELSE pg.right_pointer]

\* Child pointers lead to later pages of the file, so no page is its own
\* descendant.
Acyclic ==
    \A p \in InteriorPages : \A i \in 1..(Len(PageAt(p).cells) + 1) :
        /\ ChildrenOf(PageAt(p))[i] > p
        /\ ChildrenOf(PageAt(p))[i] <= db.num_pages

\* The row ids stored in the leaves below page p.
RECURSIVE SubtreeRowIds(_)
SubtreeRowIds(p) ==
    LET pg == PageAt(p) IN
    IF pg.page_type = "TableLeaf"
    THEN {pg.cells[i].row_id : i \in 1..Len(pg.cells)}
    ELSE UNION {SubtreeRowIds(ChildrenOf(pg)[i]) : i \in 1..(Len(pg.cells) + 1)}

\* A well-formed table B-tree: acyclic, the row ids of a leaf ascending, and
\* every interior key at least the largest row id below its left child and
\* below every row id of the next child.
WellFormedTable ==
    /\ db.kind = "table"
    /\ Acyclic
    /\ \A p \in 1..db.num_pages :
         LET pg == PageAt(p) IN
         IF pg.page_type = "TableLeaf"
         THEN \A i \in 1..(Len(pg.cells) - 1) :
                  pg.cells[i].row_id < pg.cells[i + 1].row_id
         ELSE /\ pg.page_type = "TableInterior"
              /\ \A i \in 1..Len(pg.cells) :
                   /\ \A r \in SubtreeRowIds(ChildrenOf(pg)[i]) : r <= pg.cells[i].key
                   /\ \A r \in SubtreeRowIds(ChildrenOf(pg)[i + 1]) : r > pg.cells[i].key

\* All leaf cells of the table in ascending row-id order.
RowsInOrder ==
    [i \in 1..Cardinality(StoredRows) |->
        CHOOSE c \in StoredRows :
            Cardinality({x \in StoredRows : x.row_id < c.row_id}) = i - 1]

\* C1: on a well-formed table B-tree list_records returns every cell of
\* every leaf exactly once, in ascending row-id order (the subtree of every
\* cell's left child in cell order, then that of the right-most child).
C1_ListRecordsComplete ==
    (call.op = "list_records" /\ call.phase = "done" /\ WellFormedTable) =>
        output = RowsInOrder

\* C2: on a well-formed table B-tree get_row(row_id) returns Some(record) for
\* every (row_id, record) cell stored in a leaf.
C2_GetRowFindsStored ==
    (call.op = "get_row" /\ call.phase = "done" /\ WellFormedTable) =>
        \A c \in StoredRows :
            c.row_id = call.arg => result = Some(c.record)

\* A stored row id that is also a key of the root of a three-level tree.
C2_Witness ==
    /\ call.op = "get_row"
    /\ call.phase = "done"
    /\ WellFormedTable
    /\ Len(visited) = 3
    /\ \E i \in 1..Len(PageAt(1).cells) : PageAt(1).cells[i].key = call.arg
    /\ \E c \in StoredRows : c.row_id = call.arg /\ result = Some(c.record)

\* The page the pending or the next recorded call of a lookup visits after
\* the i-th page.
NextVisited(i) == IF i < Len(visited) THEN visited[i + 1] ELSE page_num

\* C3: at a table-interior page get_row goes on to the left child of the
\* first cell with row_id <= key, or to the right-most child when there is
\* none; at a table leaf it ends with the record of the first cell whose row
\* id is the target, or with None.
C3_TableDescentStep ==
    call.op = "get_row" =>
        \A i \in 1..Len(visited) :
            LET pg == Btree_get_page(visited[i])
                le == {j \in 1..Len(pg.cells) : call.arg <= pg.cells[j].key}
                eq == {j \in 1..Len(pg.cells) : pg.cells[j].row_id = call.arg}
            IN  /\ pg.page_type = "TableInterior" =>
                    /\ i < Len(visited) \/ call.phase = "running"
                    /\ NextVisited(i) = IF le = {} THEN pg.right_pointer
                                        ELSE pg.cells[Min(le)].child_ptr
                /\ pg.page_type = "TableLeaf" =>
                    /\ i = Len(visited)
                    /\ call.phase = "done"
                    /\ result = IF eq = {} THEN None
                                ELSE Some(pg.cells[Min(eq)].record)

\* A lookup that took the right-most child of the root and missed in a leaf.
C3_Witness ==
    /\ call.op = "get_row"
    /\ call.phase = "done"
    /\ Len(visited) = 3
    /\ visited[2] = PageAt(1).right_pointer
    /\ PageAt(visited[3]).page_type = "TableLeaf"
    /\ Len(PageAt(visited[3]).cells) = 2
    /\ result = None

\* The first cell of an index-interior page at which the loop of
\* get_index_rcrs stops for the key index, 0 when it runs to the end.
StopCell(pg, index) ==
    LET stop == {j \in 1..Len(pg.cells) :
                    \/ Record_eq(index, pg.cells[j].record)
                    \/ Record_le(index, pg.cells[j].record)}
    IN  IF stop = {} THEN 0 ELSE Min(stop)

\* C4: at an index-interior page get_index examines the cells in order: a
\* cell equal to the search record ends the lookup with that cell's record,
\* a cell the search record is <= to sends it to that cell's left child, and
\* with no such cell it goes to the right-most child; at an index leaf it
\* ends with the first cell equal to the search record, or with None.
C4_IndexDescentStep ==
    call.op = "get_index" =>
        \A i \in 1..Len(visited) :
            LET pg == Btree_get_page(visited[i])
                j == StopCell(pg, call.arg)
                eq == {c \in 1..Len(pg.cells) : Record_eq(call.arg, pg.cells[c].record)}
            IN  /\ (pg.page_type = "IndexInterior" /\ j # 0
                        /\ Record_eq(call.arg, pg.cells[j].record)) =>
                    /\ i = Len(visited)
                    /\ call.phase = "done"
                    /\ result = Some(pg.cells[j].record)
                /\ (pg.page_type = "IndexInterior" /\ j # 0
                        /\ ~Record_eq(call.arg, pg.cells[j].record)) =>
                    /\ i < Len(visited) \/ call.phase = "running"
                    /\ NextVisited(i) = pg.cells[j].child_ptr
                /\ (pg.page_type = "IndexInterior" /\ j = 0) =>
                    /\ i < Len(visited) \/ call.phase = "running"
                    /\ NextVisited(i) = pg.right_pointer
                /\ pg.page_type = "IndexLeaf" =>
                    /\ i = Len(visited)
                    /\ call.phase = "done"
                    /\ result = IF eq = {} THEN None
                                ELSE Some(pg.cells[Min(eq)].record)

\* A lookup that left the root by the left child of its second cell and
\* ended in a leaf with two cells equal to the key.
C4_Witness ==
    /\ call.op = "get_index"
    /\ call.phase = "done"
    /\ Len(visited) = 3
    /\ Len(PageAt(1).cells) = 2
    /\ visited[2] = PageAt(1).cells[2].child_ptr
    /\ PageAt(visited[3]).page_type = "IndexLeaf"
    /\ Len(call.arg) = 1
    /\ result.t = "Some"
    /\ Cardinality({c \in 1..Len(PageAt(visited[3]).cells) :
                      Record_eq(call.arg, PageAt(visited[3]).cells[c].record)}) = 2

\* The entries of the index below page p in key order: for an interior page
\* the left subtree of each cell, then the cell, and the right-most subtree
\* last.
RECURSIVE InOrderEntries(_)
RECURSIVE InOrderFrom(_, _)
InOrderFrom(p, i) ==
    LET pg == PageAt(p) IN
    IF i > Len(pg.cells) THEN InOrderEntries(pg.right_pointer)
    ELSE InOrderEntries(pg.cells[i].child_ptr) \o <<pg.cells[i].record>>
         \o InOrderFrom(p, i + 1)

InOrderEntries(p) ==
    LET pg == PageAt(p) IN
    IF pg.page_type = "IndexLeaf"
    THEN [i \in 1..Len(pg.cells) |-> pg.cells[i].record]
    ELSE InOrderFrom(p, 1)

\* A well-formed index B-tree: acyclic, and its entries non-decreasing in
\* key order.
WellFormedIndex ==
    /\ db.kind = "index"
    /\ Acyclic
    /\ \A p \in 1..db.num_pages :
           PageAt(p).page_type \in {"IndexLeaf", "IndexInterior"}
    /\ LET s == InOrderEntries(db.root_page) IN
       \A i \in 1..(Len(s) - 1) :
           Record_partial_cmp(s[i], s[i + 1]) = "Less" \/ Record_eq(s[i], s[i + 1])

\* k is the first j columns of r, 1 <= j <= len(r).
IsPrefix(k, r) == Len(k) >= 1 /\ Len(k) <= Len(r) /\ SubSeq(r, 1, Len(k)) = k

\* The stored entries equal to the search key under the prefix equality.
Matches == {r \in StoredEntries : Record_eq(call.arg, r)}

GetIndexDone ==
    call.op = "get_index" /\ call.phase = "done" /\ WellFormedIndex

\* C5 as claimed: for every stored record r and every prefix k of its
\* columns get_index(k) returns exactly r, also when other stored records
\* share the prefix.
C5_ExactRecord ==
    GetIndexDone =>
        \A r \in StoredEntries : IsPrefix(call.arg, r) => result = Some(r)

\* C5: for every stored record r and every prefix k of its columns
\* get_index(k) returns Some(r') for a stored record r' that k equals
\* under the prefix equality; r' is r when no other stored record has the
\* prefix.
C5_SomeMatch ==
    GetIndexDone =>
        \A r \in StoredEntries :
            IsPrefix(call.arg, r) =>
                /\ result.t = "Some"
                /\ result.rec \in Matches
                /\ Matches = {r} => result.rec = r

\* A one-column key that three levels down matches two stored entries.
C5_Witness ==
    /\ GetIndexDone
    /\ Len(visited) = 3
    /\ Len(call.arg) = 1
    /\ \E r \in StoredEntries : IsPrefix(call.arg, r)
    /\ Cardinality(Matches) = 2
    /\ result.t = "Some"
    /\ result.rec \in Matches

\* The positions of the key order whose entry equals the search key.
MatchPositions(s) == {i \in 1..Len(s) : Record_eq(call.arg, s[i])}

\* C6 as claimed: when several stored records equal the search key,
\* get_index returns the one that comes first in the key order.
C6_Leftmost ==
    (GetIndexDone /\ Len(call.arg) >= 1 /\ Matches # {}) =>
        LET s == InOrderEntries(db.root_page) IN
        result = Some(s[Min(MatchPositions(s))])

\* C6: when stored records equal the search key, get_index returns one of
\* them: the leftmost in key order when the lookup ends on a leaf; when it
\* ends on an interior page, every match that precedes the returned record
\* in key order lies in the left subtree of the returned cell.
C6_FirstOnPath ==
    (GetIndexDone /\ Matches # {}) =>
        LET s == InOrderEntries(db.root_page)
            last == PageAt(visited[Len(visited)])
            before == {i \in MatchPositions(s) :
                          \E j \in MatchPositions(s) : i < j /\ s[j] = result.rec}
        IN  /\ result.t = "Some"
            /\ result.rec \in Matches
            /\ last.page_type = "IndexLeaf" => result.rec = s[Min(MatchPositions(s))]
            /\ last.page_type = "IndexInterior" =>
                   \E c \in 1..Len(last.cells) :
                       /\ last.cells[c].record = result.rec
                       /\ LET left == InOrderEntries(last.cells[c].child_ptr) IN
                          \A i \in before : \E q \in 1..Len(left) : left[q] = s[i]

\* A lookup that ended on the root with a match, while the leftmost match
\* is in a leaf.
C6_Witness ==
    /\ GetIndexDone
    /\ Cardinality(Matches) = 2
    /\ Len(visited) = 1
    /\ PageAt(visited[1]).page_type = "IndexInterior"
    /\ result.t = "Some"
    /\ result.rec # InOrderEntries(db.root_page)[Min(MatchPositions(InOrderEntries(db.root_page)))]

\* The cells of the interior page pg whose key equals the search key.
EqualCells(pg) ==
    {j \in 1..Len(pg.cells) :
        IF pg.page_type = "TableInterior" THEN pg.cells[j].key = call.arg
        ELSE Record_eq(call.arg, pg.cells[j].record)}

\* C7 as claimed: in get_row and in get_index, a search key equal to the key
\* of a cell of an interior page ends the lookup with success at that page.
C7_StopsAtInterior ==
    ((call.op = "get_row" /\ WellFormedTable)
        \/ (call.op = "get_index" /\ WellFormedIndex))
    => \A i \in 1..Len(visited) :
           LET pg == PageAt(visited[i]) IN
           (pg.page_type \in {"TableInterior", "IndexInterior"}
               /\ EqualCells(pg) # {}) =>
               /\ i = Len(visited)
               /\ call.phase = "done"
               /\ result.t = "Some"

\* C7: in get_index a search key equal to the record of a cell of an
\* interior page ends the lookup at that page with that record and no
\* further page is visited; in get_row a row id equal to an interior key
\* does not end the lookup, which goes on to the left child of that cell.
C7_EqualityAtInterior ==
    /\ (call.op = "get_index" /\ WellFormedIndex) =>
           \A i \in 1..Len(visited) :
               LET pg == PageAt(visited[i]) IN
               (pg.page_type = "IndexInterior" /\ EqualCells(pg) # {}) =>
                   /\ i = Len(visited)
                   /\ call.phase = "done"
                   /\ result = Some(pg.cells[Min(EqualCells(pg))].record)
    /\ (call.op = "get_row" /\ WellFormedTable) =>
           \A i \in 1..Len(visited) :
               LET pg == PageAt(visited[i]) IN
               (pg.page_type = "TableInterior" /\ EqualCells(pg) # {}) =>
                   /\ i < Len(visited) \/ call.phase = "running"
                   /\ NextVisited(i) = pg.cells[Min(EqualCells(pg))].child_ptr

\* A row id equal to a key of the root, found two pages further down.
C7_Witness ==
    /\ call.op = "get_row"
    /\ call.phase = "done"
    /\ WellFormedTable
    /\ Len(visited) = 3
    /\ EqualCells(PageAt(visited[1])) # {}
    /\ visited[2] = PageAt(1).cells[Min(EqualCells(PageAt(1)))].child_ptr
    /\ result.t = "Some"

(***************************************************************************)
(* Properties of VarInt::parse on any slice and of DataType::from_varint.  *)
(***************************************************************************)
\* C11: for every byte slice, the empty one and one that ends with the
\* continuation bit set included, the length VarInt::parse returns is the
\* length of a complete varint: between 1 and 9, and the last byte read is
\* the ninth or has its top bit clear.
C11_LengthOfCompleteVarint ==
    parsed.t = "parsed" =>
        /\ 1 <= parsed.len
        /\ parsed.len <= 9
        /\ parsed.len = 9 \/ bytes[parsed.len] < 128

\* The variant and the width the file format gives the serial type n.
FormatWidths == <<1, 2, 3, 4, 6, 8, 8, 0, 0>>
FormatVariants == <<"Int8", "Int16", "Int24", "Int32", "Int48", "Int64",
                    "Float", "Integer0", "Integer1">>

FormatType(n) ==
    IF n = 0 THEN Sized("Null", 0)
    ELSE IF n <= 9 THEN Sized(FormatVariants[n], FormatWidths[n])
    ELSE IF n % 2 = 0 THEN Sized("Blob", (n - 12) \div 2)
    ELSE Sized("String", (n - 13) \div 2)

\* C12: from_varint maps every serial type N >= 0 other than 10 and 11 to
\* the variant and width of the format (0 Null/0, 1..6 integers of 1, 2, 3,
\* 4, 6, 8 bytes, 7 float/8, 8 and 9 the literals with 0 bytes, even N >= 12
\* Blob of (N-12)/2 bytes, odd N >= 13 String of (N-13)/2 bytes), and
\* get_size returns that width.
C12_SerialTypeTable ==
    (args.fn = "from_varint" /\ ret # NoValue
        /\ args.value >= 0 /\ args.value \notin {10, 11}) =>
        /\ ret.t = "Ok"
        /\ ret.v = FormatType(args.value)
        /\ ret.size = SomeUsize(FormatType(args.value).size)

\* Serial type 16 is a blob of two bytes.
C12_Witness ==
    /\ args.fn = "from_varint"
    /\ args.value = 16
    /\ ret.t = "Ok"
    /\ ret.v = Sized("Blob", 2)
    /\ ret.size = SomeUsize(2)

\* C13: from_varint returns an error for every negative serial type and for
\* the reserved serial types 10 and 11, never a DataType.
C13_ReservedRejected ==
    (args.fn = "from_varint" /\ ret # NoValue
        /\ (args.value < 0 \/ args.value \in {10, 11})) =>
        ret.t = "Err"

(***************************************************************************)
(* Properties of FileHeader::parse.                                        *)
(***************************************************************************)
\* A header whose magic, versions, fractions and encoding are valid.
ValidButPageSize(h) ==
    /\ h.magic
    /\ h.file_write \in {1, 2} /\ h.file_read \in {1, 2}
    /\ h.max_payload = 64 /\ h.min_payload = 32 /\ h.leaf_payload = 32
    /\ h.encoding \in {1, 2, 3}

FormatPageSizes == {Pow(2, e) : e \in 9..15} \cup {1}

\* C14: a header with valid magic, versions, fractions and encoding is
\* accepted by FileHeader::parse exactly when its page-size field is a power
\* of two in [512, 32768] or the value 1; any other page size is an error.
C14_PageSizeAccepted ==
    (args.fn = "FileHeader::parse" /\ ret # NoValue /\ ValidButPageSize(args.i)) =>
        /\ (ret.t = "Ok") = (args.i.page_size \in FormatPageSizes)
        /\ ret.t \in {"Ok", "Err"}

\* C15: when the page-size field is 1, the page size of the parsed header is
\* 65536, and so is the divisor that derives num_pages from the file size.
C15_PageSizeOneIs65536 ==
    (args.fn = "FileHeader::parse" /\ ret # NoValue /\ ret.t = "Ok"
        /\ args.i.page_size = 1) =>
        /\ ret.v.page_size = 65536
        /\ (args.i.num_pages = 0 \/ args.i.change_counter # args.i.version_valid_for) =>
               ret.v.num_pages = args.i.total_size \div 65536

(***************************************************************************)
(* Properties of calc_payload_on_page.                                     *)
(***************************************************************************)
\* The quantities of the file format for the cell of the call: U, X, M, K.
RefU == args.page_size - args.reserved_space
RefX == IF args.kind = "TableLeaf" THEN RefU - 35
        ELSE (((RefU - 12) * 64) \div 255) - 23
RefM == (((RefU - 12) * 32) \div 255) - 23
RefK(P) == IF P < RefM THEN RefM ELSE RefM + ((P - RefM) % (RefU - 4))
on_page(P) == IF P <= RefX THEN P ELSE IF RefK(P) <= RefX THEN RefK(P) ELSE RefM

\* calc_payload_on_page for the page of the call and the payload size P.
CalcFor(P) ==
    calc_payload_on_page(args.page_size, args.reserved_space, P,
                         args.kind # "TableLeaf")

\* C16: calc_payload_on_page equals on_page(P) = (P <= X ? P : (K <= X ? K :
\* M)) with U, X, M, K of the file format, for every payload size and every
\* valid page size and reserved space, and the cell iterator slices exactly
\* on_page(P) payload bytes.
C16_OnPageReference ==
    (args.fn = "next" /\ ret # NoValue) =>
        /\ ret.payload_on_page = on_page(args.payload_size)
        /\ ret.end - ret.start = on_page(args.payload_size)

\* A payload that overflows a 512-byte table leaf and leaves K bytes on it.
C16_Witness ==
    /\ args.fn = "next"
    /\ ret # NoValue
    /\ args.kind = "TableLeaf"
    /\ args.page_size = 512
    /\ args.reserved_space = 0
    /\ args.payload_size = 600
    /\ ret.payload_on_page = 92
    /\ ret.end - ret.start = 92

\* C17 as claimed: the result is non-decreasing in P up to X, and from some
\* bound B on (with a whole period U - 4 of payload sizes above it among
\* those of the model) it is M for every P >= B.
C17_SettlesAtMin ==
    (args.fn = "next" /\ ret # NoValue) =>
        /\ (1 <= args.payload_size /\ args.payload_size <= RefX) =>
               CalcFor(args.payload_size - 1) <= ret.payload_on_page
        /\ \E B \in 0..(MaxPayload - (RefU - 4)) :
               \A P \in B..MaxPayload : CalcFor(P) = RefM

\* The least payload size P' >= P with (P' - M) mod (U - 4) = 1.
NextResidueOne(P) == P + ((1 - (P - RefM)) % (RefU - 4))

\* C17: the result is P itself, so non-decreasing, for P <= X; for P > X it
\* lies in [M, X] and repeats with period U - 4, and it does not settle at M:
\* above every P there is a payload size whose result is M + 1.
C17_MonotoneThenPeriodic ==
    (args.fn = "next" /\ ret # NoValue) =>
        LET P == args.payload_size IN
        /\ P <= RefX => ret.payload_on_page = P
        /\ (1 <= P /\ P <= RefX) => CalcFor(P - 1) <= ret.payload_on_page
        /\ P > RefX =>
               /\ RefM <= ret.payload_on_page
               /\ ret.payload_on_page <= RefX
               /\ CalcFor(P + (RefU - 4)) = ret.payload_on_page
               /\ NextResidueOne(P) >= P
               /\ CalcFor(NextResidueOne(P)) = RefM + 1

\* A payload far above X whose on-page part is M + 1, not M.
C17_Witness ==
    /\ args.fn = "next"
    /\ ret # NoValue
    /\ args.kind = "IndexLeaf"
    /\ args.page_size = 512
    /\ args.reserved_space = 0
    /\ args.payload_size > RefX + (RefU - 4)
    /\ ret.payload_on_page = RefM + 1

(***************************************************************************)
(* Properties of the page bytes and of the pager.                          *)
(***************************************************************************)
\* The bytes of page pgno in the file.
FilePage(pgno) ==
    SubSeq(pager.file, ((pgno - 1) * pager.page_size) + 1, pgno * pager.page_size)

\* C18: for every page number n >= 1, page 1 included, and every page P of a
\* valid database, deserialize(P, n).serialize() is P byte for byte, of
\* length page_size, trailer and gaps included.
C18_PageRoundTrip ==
    (args # NoValue /\ args.fn = "deserialize"
        /\ be_u8(args.i, HeaderOffset(args.page_num)) \in PageTypeBytes) =>
        /\ ret.t = "Ok"
        /\ Len(ret.bytes) = pager.page_size
        /\ ret.bytes = args.i

\* C19: a page whose type byte is none of 0x02, 0x05, 0x0a, 0x0d makes
\* BtreePage::deserialize and Pager::get_page return an error, never abort
\* the program, and get_page leaves the cache as it was.
C19_BadTypeIsError ==
    [][(args' # NoValue /\ args'.fn \in {"deserialize", "get_page"}
          /\ args'.page_num \in 1..pager.num_pages
          /\ be_u8(FilePage(args'.page_num), HeaderOffset(args'.page_num))
                 \notin PageTypeBytes)
       => (ret'.t = "Err" /\ pager'.cache = pager.cache)]_vars

\* C20: read_from_file and get_page return an error for every page number
\* outside [1, num_pages], 0 and num_pages + 1 in particular; inside the
\* range the page read is the page_size bytes at offset
\* (page_no - 1) * page_size.
C20_RangeChecked ==
    (args # NoValue /\ args.fn \in {"read_from_file", "get_page"}) =>
        /\ args.page_num \notin 1..pager.num_pages => ret.t = "Err"
        /\ (args.page_num \in 1..pager.num_pages /\ args.fn = "read_from_file") =>
               /\ ret.t = "Ok"
               /\ Len(ret.v) = pager.page_size
               /\ \A k \in 1..pager.page_size :
                      ret.v[k] = pager.file[((args.page_num - 1) * pager.page_size) + k]
        /\ (args.page_num \in 1..pager.num_pages /\ args.fn = "get_page"
                /\ ret.t = "Ok") =>
               ret.v.bytes = FilePage(args.page_num)

(***************************************************************************)
(* Properties of the pager's cache.                                        *)
(***************************************************************************)
CacheKeys(cache) == {cache[e].key : e \in 1..Len(cache)}

\* C21: after any sequence of get_page, get_page_mut and insert calls the
\* cache holds at most 10 pages and one entry per page number; a get_page
\* that returns a cached page reads nothing from the file, and a get_page
\* that returns an uncached page reads the file once and leaves the page
\* cached.
C21_CacheBounded ==
    /\ [](/\ Len(pager.cache) <= 10
          /\ Cardinality(CacheKeys(pager.cache)) = Len(pager.cache))
    /\ [][(args'.fn = "get_page" /\ ret'.t = "Ok") =>
            IF args'.page_num \in CacheKeys(pager.cache)
            THEN history'.reads = 0
            ELSE /\ history'.reads = 1
                 /\ args'.page_num \in CacheKeys(pager'.cache)]_vars

\* A get_page that read the eleventh page into a full cache.
C21_Witness ==
    /\ args # NoValue
    /\ args.fn = "get_page"
    /\ args.page_num = 11
    /\ ret.t = "Ok"
    /\ history.reads = 1
    /\ Len(pager.cache) = 10
    /\ Len(history.accessed) = 11

\* The cached page whose most recent access is the oldest.
OldestAccessed ==
    history.accessed[
        CHOOSE i \in 1..Len(history.accessed) :
            /\ history.accessed[i] \in CacheKeys(pager.cache)
            /\ \A j \in (i + 1)..Len(history.accessed) :
                   history.accessed[j] \notin CacheKeys(pager.cache)]

\* C22: a get_page miss on a full cache evicts the page whose most recent
\* access (a get_page or get_page_mut hit or miss, or an insert) is the
\* oldest, so that a page just hit through get_page is not the next victim.
C22_EvictsLeastRecentlyUsed ==
    [][(/\ args'.fn = "get_page"
        /\ ret'.t = "Ok"
        /\ Len(pager.cache) = 10
        /\ args'.page_num \notin CacheKeys(pager.cache))
       => CacheKeys(pager'.cache) =
              (CacheKeys(pager.cache) \ {OldestAccessed}) \cup {args'.page_num}]_vars

\* Page 1 came back into a full cache: page 11, not hit since it was read,
\* was evicted, and page 2, read long before it but hit since, was kept.
C22_Witness ==
    /\ args # NoValue
    /\ args.fn = "get_page"
    /\ args.page_num = 1
    /\ ret.t = "Ok"
    /\ history.reads = 1
    /\ CacheKeys(pager.cache) = 1..10
    /\ 11 \in {history.accessed[i] : i \in 1..Len(history.accessed)}

\* C23: with no insert before, get_page(n) for n in [1, num_pages] returns
\* the page BtreePage::deserialize makes of the file's bytes of page n,
\* whatever was requested, cached or evicted before.
C23_CacheTransparent ==
    (args # NoValue /\ args.fn = "get_page" /\ history.written = {}
        /\ args.page_num \in 1..pager.num_pages) =>
        /\ ret.t = "Ok"
        /\ ret.v = BtreePage_deserialize(FilePage(args.page_num), args.page_num,
                                         pager.page_size, pager.reserved_space).v

\* A hit on page 5 while eleven pages have been read and one was evicted.
C23_Witness ==
    /\ args # NoValue
    /\ args.fn = "get_page"
    /\ args.page_num = 5
    /\ history.written = {}
    /\ history.reads = 0
    /\ Len(history.accessed) = 11
    /\ pager.cache[1].key = 5
    /\ ret.v.bytes = FilePage(5)

(***************************************************************************)
(* Properties of the freelist.                                             *)
(***************************************************************************)
\* The trunks of the chain that starts at page first, and their leaves, as
\* the file has them.
RECURSIVE ChainPages(_, _)
ChainPages(first, fuel) ==
    IF first = 0 \/ fuel = 0 THEN {}
    ELSE LET trunk == FreelistPage_deserialize(FilePage(first)).v
         IN  {first} \cup {trunk.free_pages[k] : k \in 1..Len(trunk.free_pages)}
             \cup (IF trunk.next_page_link.t = "Some"
                   THEN ChainPages(trunk.next_page_link.v, fuel - 1) ELSE {})

\* C24: for every acyclic chain of one or more trunk pages the walk of main
\* terminates, and the pages it has collected are then exactly the trunks of
\* the chain and the leaves they list.
C24_WalkCollectsChain ==
    <>(/\ ret.t = "Ok"
       /\ {ret.v[k] : k \in 1..Len(ret.v)} = ChainPages(args.first_freelist, pager.num_pages))


\* C30: FreelistPage::deserialize(f.serialize(page_size)) equals f for every
\* FreelistPage f that fits in a page; the serialized bytes are page_size
\* long, and next_trunk, leaf_count and each leaf number take 4 big-endian
\* bytes each.
C30_FreelistRoundTrip ==
    (args # NoValue /\ "f" \in DOMAIN args /\ ret # NoValue) =>
        /\ ret.t = "Ok"
        /\ Len(ret.bytes) = args.page_size
        /\ ret.back = Ok(args.f)
        /\ SubSeq(ret.bytes, 1, 8 + (4 * Len(args.f.free_pages))) =
               u32_to_be_bytes(IF args.f.next_page_link.t = "Some"
                               THEN args.f.next_page_link.v ELSE 0)
               \o u32_to_be_bytes(Len(args.f.free_pages))
               \o Flatten([k \in 1..Len(args.f.free_pages) |->
                              u32_to_be_bytes(args.f.free_pages[k])])


(***************************************************************************)
(* Properties of the record codec.                                         *)
(***************************************************************************)
\* The header Record::serialize is to write: the varint of the size of the
\* header, itself included, then the serial types.
HeaderOf(r) ==
    LET types == Flatten([k \in 1..Len(r.col_types) |->
                            VarInt_serialize(DataType_to_varint(r.col_types[k]))])
    IN  VarInt_serialize(Len(types) + 1) \o types

\* C25: Record::serialize writes the header size varint (the size of the
\* whole header, itself included), the serial type varints and the packed
\* values, and Record::deserialize of these bytes is the record again, for
\* every record of fixed-size columns.
C25_RecordRoundTrip ==
    (args # NoValue /\ "self" \in DOMAIN args /\ ret # NoValue) =>
        /\ Len(ret.bytes) >= Len(HeaderOf(args.self))
        /\ SubSeq(ret.bytes, 1, Len(HeaderOf(args.self))) = HeaderOf(args.self)
        /\ ret.back = Ok(args.self)

\* The value of a stored integer of the given width: big-endian, sign
\* extended.
SignExtended(bs) == int_from_be_bytes(bs)

\* C27: Record::deserialize of a record with a column of serial type 3 or 5
\* never aborts: the column takes exactly 3 or 6 bytes of the body and its
\* value is their big-endian value, sign extended.
C27_Int24Int48Decoded ==
    (args # NoValue /\ "i" \in DOMAIN args /\ ret # NoValue
        /\ \E k \in 2..args.i[1] : args.i[k] \in {3, 5}) =>
        /\ ret.t = "Ok"
        /\ Len(ret.v.values) = args.i[1] - 1
        /\ \A k \in 1..Len(ret.v.values) :
             LET before == Flatten([j \in 1..(k - 1) |->
                                      [x \in 1..StoredWidth(args.i[j + 1]) |-> 0]])
                 width == StoredWidth(args.i[k + 1])
             IN  args.i[k + 1] \in {3, 5} =>
                    ret.v.values[k] =
                        IntV(IF args.i[k + 1] = 3 THEN "Int24" ELSE "Int48",
                             SignExtended(SubSeq(args.i, args.i[1] + Len(before) + 1,
                                                 args.i[1] + Len(before) + width)))


(***************************************************************************)
(* Properties of the prototype table.                                      *)
(***************************************************************************)
\* The number of cells of the root leaf; 0 while the page is not loaded.
RootCells == IF table.pager.pages = <<>> THEN 0 ELSE RootNode(table).num_cells

\* C28: after any sequence of execute_insert calls the root leaf never has
\* more than LEAF_NODE_MAX_CELLS cells and no cell behind the array is
\* written (the write would panic); an execute_insert on a leaf of
\* LEAF_NODE_MAX_CELLS cells returns the error "Table full." and changes
\* neither num_cells nor a stored cell.
C28_TableCapacity ==
    /\ [](/\ RootCells <= LEAF_NODE_MAX_CELLS
          /\ ret.t # "panic")
    /\ [][(args'.fn = "execute_insert" /\ RootCells = LEAF_NODE_MAX_CELLS) =>
            /\ ret' = ErrOf("Table full.")
            /\ table'.pager = table.pager]_vars

\* The fourteenth execute_insert was refused.
C28_Witness ==
    /\ args # NoValue
    /\ args.fn = "execute_insert"
    /\ ret = ErrOf("Table full.")
    /\ Len(history) = LEAF_NODE_MAX_CELLS
    /\ RootCells = 13

\* C29: on a table made from an empty file, execute_select after k
\* successful execute_insert calls visits exactly the k rows inserted, each
\* once and in the order of their insertion, and leaves the cursor at_end
\* behind the k-th row; with k = 0 it visits no row.
C29_SelectInInsertionOrder ==
    (args # NoValue /\ args.fn = "execute_select" /\ table.pager.file_length = 0) =>
        /\ ret = Ok([k \in 1..Len(history) |-> RowLine(history[k])])
        /\ table.cursor.at_end
        /\ table.cursor.cell_num = Len(history)

\* A select over three rows, the second and third with another id than the
\* first.
C29_Witness ==
    /\ args # NoValue
    /\ args.fn = "execute_select"
    /\ table.pager.file_length = 0
    /\ Len(history) = 3
    /\ ret.t = "Ok"
    /\ ret.v = <<<<1, <<97>>, <<101, 64, 102>>>>, <<2, <<97, 98>>, <<101, 64, 102>>>>,
                 <<2, <<97, 98>>, <<101, 64, 102>>>>>>
    /\ table.cursor = [page_num |-> 0, cell_num |-> 3, at_end |-> TRUE]


\* C26: get_row, get_index and list_records terminate on every file, files
\* whose interior pages point to themselves or to an ancestor included:
\* every call that was started returns.
C26_NavigationTerminates ==
    (call.phase = "running") ~> (call.phase = "done")

====
